---- MODULE Spec2Model ----
(***************************************************************************)
(* Model of the record UI tools of the Salesforce MCP server:              *)
(*   parseObjectText, isIsoDate, objectCardHtml and the script embedded in *)
(*   the edit form (getFormData, buildPrompt, save, cancel, the resize     *)
(*   observer), and handleEditSingleRecord.                                *)
(*                                                                         *)
(* JavaScript strings are sequences of one-character strings, so that      *)
(* trimming, splitting, the bullet-line pattern and case conversion are    *)
(* computed character by character as the code computes them.  Messages    *)
(* built by template literals are TLA+ strings, obtained with Str.         *)
(***************************************************************************)
EXTENDS Integers, Sequences, FiniteSets, TLC

(***************************************************************************)
(* Bounds of the model.                                                    *)
(***************************************************************************)
\* lines of an input text given to the parser
MaxLines == 4
\* messages posted by one form artifact
MaxMsgs == 2
\* longest string of digits given to the date check
MaxDigits == 4
\* most texts in a batch given to the table
MaxBatch == 2
\* most requests the server gets
MaxRequests == 2

(***************************************************************************)
(* JavaScript string primitives.                                           *)
(***************************************************************************)
UpperLetters ==
  <<"A","B","C","D","E","F","G","H","I","J","K","L","M",
    "N","O","P","Q","R","S","T","U","V","W","X","Y","Z">>

LowerLetters ==
  <<"a","b","c","d","e","f","g","h","i","j","k","l","m",
    "n","o","p","q","r","s","t","u","v","w","x","y","z">>

Digits == <<"0","1","2","3","4","5","6","7","8","9">>

IsDigit(c) == \E i \in DOMAIN Digits : Digits[i] = c

DigitVal(c) == (CHOOSE i \in DOMAIN Digits : Digits[i] = c) - 1

\* the characters matched by \s and removed by trim()
IsWs(c) == c \in {" ", "\t", "\n", "\r"}

\* the characters the pattern's "." does not match
IsLineTerminator(c) == c \in {"\n", "\r"}

\* the lower case of each upper case letter, and the reverse
LowerOf ==
  [c \in { UpperLetters[i] : i \in DOMAIN UpperLetters } |->
     LowerLetters[CHOOSE i \in DOMAIN UpperLetters : UpperLetters[i] = c]]

toLowerCaseChar(c) == IF c \in DOMAIN LowerOf THEN LowerOf[c] ELSE c

UpperOf ==
  [c \in { LowerLetters[i] : i \in DOMAIN LowerLetters } |->
     UpperLetters[CHOOSE i \in DOMAIN LowerLetters : LowerLetters[i] = c]]

toUpperCaseChar(c) == IF c \in DOMAIN UpperOf THEN UpperOf[c] ELSE c

toLowerCase(s) == [i \in 1..Len(s) |-> toLowerCaseChar(s[i])]

RECURSIVE trimStart(_)
trimStart(s) ==
  IF s = <<>> THEN s
  ELSE IF IsWs(s[1]) THEN trimStart(Tail(s)) ELSE s

RECURSIVE trimEnd(_)
trimEnd(s) ==
  IF s = <<>> THEN s
  ELSE IF IsWs(s[Len(s)]) THEN trimEnd(SubSeq(s, 1, Len(s) - 1)) ELSE s

trim(s) == trimEnd(trimStart(s))

\* s.includes(t)
includes(s, t) ==
  \E i \in 0..(Len(s) - Len(t)) : SubSeq(s, i + 1, i + Len(t)) = t

startsWith(s, t) == Len(s) >= Len(t) /\ SubSeq(s, 1, Len(t)) = t

\* index of the first occurrence of character c in s, 0 when there is none
IndexOf(s, c) ==
  IF \E i \in 1..Len(s) : s[i] = c
  THEN CHOOSE i \in 1..Len(s) : s[i] = c /\ \A j \in 1..(i - 1) : s[j] # c
  ELSE 0

\* a sequence of characters as a TLA+ string
RECURSIVE Str(_)
Str(s) == IF s = <<>> THEN "" ELSE s[1] \o Str(Tail(s))

\* Array.prototype.join on an array of TLA+ strings
RECURSIVE JoinStr(_, _)
JoinStr(a, sep) ==
  IF a = <<>> THEN ""
  ELSE IF Len(a) = 1 THEN a[1]
  ELSE a[1] \o sep \o JoinStr(Tail(a), sep)

\* Array.prototype.join on an array of character sequences
RECURSIVE Join(_, _)
Join(a, sep) ==
  IF a = <<>> THEN <<>>
  ELSE IF Len(a) = 1 THEN a[1]
  ELSE a[1] \o sep \o Join(Tail(a), sep)

\* raw.split(/\r?\n/)
RECURSIVE SplitLines(_)
SplitLines(s) ==
  LET i == IndexOf(s, "\n") IN
  IF i = 0 THEN <<s>>
  ELSE LET head == SubSeq(s, 1, i - 1)
           line == IF head # <<>> /\ head[Len(head)] = "\r"
                   THEN SubSeq(head, 1, Len(head) - 1)
                   ELSE head
       IN  <<line>> \o SplitLines(SubSeq(s, i + 1, Len(s)))

IsWordSep(c) == IsWs(c) \/ c = "_"

\* label.split(/[\s_]+/): a leading or trailing run of separators, and the
\* empty string, give an empty word
RECURSIVE SplitWords(_)
SplitWords(s) ==
  IF \A i \in 1..Len(s) : ~IsWordSep(s[i]) THEN <<s>>
  ELSE LET i == CHOOSE i \in 1..Len(s) :
                  IsWordSep(s[i]) /\ \A j \in 1..(i - 1) : ~IsWordSep(s[j])
           k == CHOOSE k \in i..Len(s) :
                  /\ \A j \in i..k : IsWordSep(s[j])
                  /\ (k = Len(s) \/ ~IsWordSep(s[k + 1]))
       IN  <<SubSeq(s, 1, i - 1)>> \o SplitWords(SubSeq(s, k + 1, Len(s)))

(***************************************************************************)
(* Insertion-ordered maps (Map, and the keys of a plain object): a         *)
(* sequence of key/value pairs; setting an existing key keeps its place.   *)
(***************************************************************************)
Keys(m) == [i \in 1..Len(m) |-> m[i].k]

Has(m, key) == \E i \in 1..Len(m) : m[i].k = key

Get(m, key) == m[CHOOSE i \in 1..Len(m) : m[i].k = key].v

MapSet(m, key, val) ==
  IF Has(m, key)
  THEN [i \in 1..Len(m) |-> IF m[i].k = key THEN [k |-> key, v |-> val] ELSE m[i]]
  ELSE Append(m, [k |-> key, v |-> val])

(***************************************************************************)
(* parseObjectText                                                         *)
(***************************************************************************)
KName == <<"N","a","m","e">>
KId == <<"I","d">>

REQUIRED_FIELDS == <<KName, KId>>

\* raw.trim().split(/\r?\n/).map(l => l.trim()).filter(Boolean)
Lines(raw) ==
  LET split == SplitLines(trim(raw))
      trimmed == [i \in 1..Len(split) |-> trim(split[i])]
  IN  SelectSeq(trimmed, LAMBDA l : l # <<>>)

IsBullet(line) == startsWith(line, <<"*">>)

\* lines.find(l => !l.startsWith("*")); <<>> stands for undefined
NameLine(lines) ==
  IF \E i \in 1..Len(lines) : ~IsBullet(lines[i])
  THEN lines[CHOOSE i \in 1..Len(lines) :
               ~IsBullet(lines[i]) /\ \A j \in 1..(i - 1) : IsBullet(lines[j])]
  ELSE <<>>

\* line.match(/^\*\s*([^:]+):\s*(.+)$/) on a line that starts with "*":
\* the label group ends at the first colon and needs one character (which may
\* be white space given back by \s*); the value group runs to the end of the
\* line and holds no line terminator.  key and value are the trimmed groups.
MatchBullet(line) ==
  LET rest == Tail(line)
      c == IndexOf(rest, ":")
      after == trimStart(SubSeq(rest, c + 1, Len(rest)))
      ok == /\ c >= 2
            /\ after # <<>>
            /\ \A i \in 1..Len(after) : ~IsLineTerminator(after[i])
  IN  [matched |-> ok,
       key |-> IF ok THEN trim(SubSeq(rest, 1, c - 1)) ELSE <<>>,
       value |-> IF ok THEN trim(after) ELSE <<>>]

\* a loop that stops at the first bullet line the pattern does not match,
\* where the code goes on to the next line
RECURSIVE CollectFieldsBreak(_, _, _)
CollectFieldsBreak(lines, fieldMap, valueMap) ==
  IF lines = <<>> THEN [fieldMap |-> fieldMap, valueMap |-> valueMap]
  ELSE LET line == Head(lines)
           m == MatchBullet(line)
           lower == toLowerCase(m.key)
       IN  IF ~IsBullet(line)
           THEN CollectFieldsBreak(Tail(lines), fieldMap, valueMap)
           ELSE IF ~m.matched
           THEN [fieldMap |-> fieldMap, valueMap |-> valueMap]
           ELSE CollectFieldsBreak(Tail(lines),
                                   MapSet(fieldMap, lower, m.key),
                                   MapSet(valueMap, lower, m.value))

\* the loop over lines: the two maps keyed by the lower-cased label
RECURSIVE CollectFields(_, _, _)
CollectFields(lines, fieldMap, valueMap) ==
  IF lines = <<>> THEN [fieldMap |-> fieldMap, valueMap |-> valueMap]
  ELSE LET line == Head(lines)
           m == MatchBullet(line)
           lower == toLowerCase(m.key)
       IN  IF ~IsBullet(line) \/ ~m.matched
           THEN CollectFields(Tail(lines), fieldMap, valueMap)
           ELSE CollectFields(Tail(lines),
                              MapSet(fieldMap, lower, m.key),
                              MapSet(valueMap, lower, m.value))

\* w[0].toUpperCase() + w.slice(1).toLowerCase(); w[0] of an empty word is
\* undefined and the call throws a TypeError
WordThrows(w) == w = <<>>

\* a word left in the casing of the input
TitleWordKeepCase(w) == w

TitleWord(w) == <<toUpperCaseChar(w[1])>> \o toLowerCase(Tail(w))

LabelThrows(rawKey) ==
  LET ws == SplitWords(rawKey) IN \E i \in 1..Len(ws) : WordThrows(ws[i])

TitleCase(rawKey) ==
  LET ws == SplitWords(rawKey)
  IN  Join([i \in 1..Len(ws) |-> TitleWord(ws[i])], <<" ">>)

\* the loop that fills obj from valueMap.entries()
RECURSIVE BuildObj(_, _, _)
BuildObj(entries, fieldMap, obj) ==
  IF entries = <<>> THEN obj
  ELSE LET e == Head(entries)
       IN  BuildObj(Tail(entries), fieldMap,
                    MapSet(obj, TitleCase(Get(fieldMap, e.k)), e.v))

NoError == [name |-> "", message |-> ""]

Thrown(name, message) ==
  [ok |-> FALSE, obj |-> <<>>, error |-> [name |-> name, message |-> message]]

Returned(obj) == [ok |-> TRUE, obj |-> obj, error |-> NoError]

MissingName == "Missing object name (first non-bullet line)."

UndefinedRead == "Cannot read properties of undefined (reading 'toUpperCase')"

\* a check that reports the first missing field only
MissingFieldsFirstOnly(fieldMap) ==
  LET all == SelectSeq(REQUIRED_FIELDS, LAMBDA f : ~Has(fieldMap, toLowerCase(f)))
  IN  IF all = <<>> THEN all ELSE <<all[1]>>

MissingFields(fieldMap) ==
  SelectSeq(REQUIRED_FIELDS, LAMBDA f : ~Has(fieldMap, toLowerCase(f)))

MissingMessage(missing) ==
  "Missing required fields: "
    \o JoinStr([i \in 1..Len(missing) |-> Str(missing[i])], ", ")

parseObjectText(raw) ==
  LET lines == Lines(raw)
      nameLine == NameLine(lines)
      maps == CollectFields(lines, <<>>, <<>>)
      missing == MissingFields(maps.fieldMap)
  IN  IF nameLine = <<>> THEN Thrown("Error", MissingName)
      ELSE IF missing # <<>> THEN Thrown("Error", MissingMessage(missing))
      ELSE IF \E i \in 1..Len(maps.valueMap) :
                LabelThrows(Get(maps.fieldMap, maps.valueMap[i].k))
      THEN Thrown("TypeError", UndefinedRead)
      ELSE Returned(BuildObj(maps.valueMap, maps.fieldMap,
                             <<[k |-> KName, v |-> nameLine]>>))

(***************************************************************************)
(* isIsoDate                                                               *)
(***************************************************************************)
\* the number written by a sequence of digits
RECURSIVE Number(_)
Number(s) ==
  IF s = <<>> THEN 0
  ELSE 10 * Number(SubSeq(s, 1, Len(s) - 1)) + DigitVal(s[Len(s)])

AllDigits(s) == \A i \in 1..Len(s) : IsDigit(s[i])

\* /^\d{4}-\d{2}-\d{2}$/
IsYmdShape(s) ==
  /\ Len(s) = 10
  /\ s[5] = "-" /\ s[8] = "-"
  /\ AllDigits(SubSeq(s, 1, 4)) /\ AllDigits(SubSeq(s, 6, 7))
  /\ AllDigits(SubSeq(s, 9, 10))

\* /^\d{4}$/, the year form of the ECMAScript date-time format
IsYShape(s) == Len(s) = 4 /\ AllDigits(s)

\* /^\d{4}-\d{2}$/, the month form of the ECMAScript date-time format
IsYmShape(s) ==
  /\ Len(s) = 7
  /\ s[5] = "-"
  /\ AllDigits(SubSeq(s, 1, 4)) /\ AllDigits(SubSeq(s, 6, 7))

\* /^\d{4}-\d{2}-\d{2}T\d{2}:\d{2}Z$/, the UTC date-time form
IsYmdHmZShape(s) ==
  /\ Len(s) = 17
  /\ IsYmdShape(SubSeq(s, 1, 10))
  /\ s[11] = "T" /\ s[14] = ":" /\ s[17] = "Z"
  /\ AllDigits(SubSeq(s, 12, 13)) /\ AllDigits(SubSeq(s, 15, 16))

IsLeapYear(y) == (y % 4 = 0 /\ y % 100 # 0) \/ y % 400 = 0

DaysInMonth(y, m) ==
  IF m = 2 THEN (IF IsLeapYear(y) THEN 29 ELSE 28)
  ELSE IF m \in {4, 6, 9, 11} THEN 30 ELSE 31

\* the month names the engine's own date format writes
MonthNames ==
  << <<"J","a","n">>, <<"F","e","b">>, <<"M","a","r">>, <<"A","p","r">>,
     <<"M","a","y">>, <<"J","u","n">>, <<"J","u","l">>, <<"A","u","g">>,
     <<"S","e","p">>, <<"O","c","t">>, <<"N","o","v">>, <<"D","e","c">> >>

IsMonthName(s) == \E i \in DOMAIN MonthNames : MonthNames[i] = s

MonthOf(s) == CHOOSE i \in DOMAIN MonthNames : MonthNames[i] = s

\* "Mon D YYYY" and "Mon D, YYYY" with a one-digit day, the form the engine's
\* own parser reads besides the ECMAScript format
IsMonDYShape(s) ==
  /\ Len(s) \in {10, 11}
  /\ IsMonthName(SubSeq(s, 1, 3))
  /\ s[4] = " " /\ IsDigit(s[5])
  /\ IF Len(s) = 11 THEN s[6] = "," /\ s[7] = " " ELSE s[6] = " "
  /\ AllDigits(SubSeq(s, Len(s) - 3, Len(s)))

NaN == [nan |-> TRUE, y |-> 0, m |-> 0, d |-> 0]

UtcDate(y, m, d) == [nan |-> FALSE, y |-> y, m |-> m, d |-> d]

\* Date.parse / new Date(string), as the UTC calendar date of the instant.
\* The ECMAScript date-time format is parsed: a year, a month, a date, or a
\* date with a UTC time; an element out of range gives NaN.  Of the strings
\* outside that format the month-name form is read as the engine reads it.
\* What an engine makes of any other string is its own business: the value
\* pools of this model hold only such strings that engines reject.
DateParse(s) ==
  IF IsYShape(s) THEN UtcDate(Number(s), 1, 1)
  ELSE IF IsMonDYShape(s)
  THEN LET d == DigitVal(s[5]) IN
       IF d >= 1 THEN UtcDate(Number(SubSeq(s, Len(s) - 3, Len(s))),
                              MonthOf(SubSeq(s, 1, 3)), d)
       ELSE NaN
  ELSE IF IsYmShape(s)
  THEN LET y == Number(SubSeq(s, 1, 4))
           m == Number(SubSeq(s, 6, 7))
       IN  IF m \in 1..12 THEN UtcDate(y, m, 1) ELSE NaN
  ELSE IF IsYmdShape(s) \/ IsYmdHmZShape(s)
  THEN LET y == Number(SubSeq(s, 1, 4))
           m == Number(SubSeq(s, 6, 7))
           d == Number(SubSeq(s, 9, 10))
           hh == IF Len(s) > 10 THEN Number(SubSeq(s, 12, 13)) ELSE 0
           mi == IF Len(s) > 10 THEN Number(SubSeq(s, 15, 16)) ELSE 0
       IN  IF m \in 1..12 /\ d >= 1 /\ d <= DaysInMonth(y, m)
              /\ hh \in 0..23 /\ mi \in 0..59
           THEN UtcDate(y, m, d) ELSE NaN
  ELSE NaN

\* getFullYear() is the year in local time; it is the UTC year except within a
\* zone offset of a year boundary, and the value pools hold no such instant
getFullYear(date) == date.y

\* the strict YYYY-MM-DD branch: only the three ranges are checked
StrictYmd(trimmed) ==
  LET y == Number(SubSeq(trimmed, 1, 4))
      m == Number(SubSeq(trimmed, 6, 7))
      d == Number(SubSeq(trimmed, 9, 10))
  IN  y >= 1900 /\ y <= 2100 /\ m >= 1 /\ m <= 12 /\ d >= 1 /\ d <= 31

\* the fallback: Date.parse, then the year range
ParseFallback(trimmed) ==
  LET date == DateParse(trimmed) IN
  IF date.nan THEN FALSE
  ELSE getFullYear(date) >= 1900 /\ getFullYear(date) <= 2100

\* an isIsoDate without the early rejections
isIsoDateNoBlock(value) ==
  LET trimmed == trim(value) IN
  IF IsYmdShape(trimmed) THEN StrictYmd(trimmed) ELSE ParseFallback(trimmed)

\* an isIsoDate that leaves every shape to Date.parse
isIsoDateNoStrict(value) ==
  LET trimmed == trim(value) IN
  IF trimmed # <<>> /\ trimmed[Len(trimmed)] = "%" THEN FALSE
  ELSE IF startsWith(trimmed, <<"$">>) THEN FALSE
  ELSE IF trimmed # <<>> /\ AllDigits(trimmed) THEN FALSE
  ELSE IF includes(trimmed, <<"$">>) \/ includes(trimmed, <<"%">>)
          \/ includes(trimmed, <<",">>) THEN FALSE
  ELSE ParseFallback(trimmed)

isIsoDate(value) ==
  LET trimmed == trim(value) IN
  IF trimmed # <<>> /\ trimmed[Len(trimmed)] = "%" THEN FALSE
  ELSE IF startsWith(trimmed, <<"$">>) THEN FALSE
  ELSE IF trimmed # <<>> /\ AllDigits(trimmed) THEN FALSE
  ELSE IF includes(trimmed, <<"$">>) \/ includes(trimmed, <<"%">>)
          \/ includes(trimmed, <<",">>) THEN FALSE
  ELSE IF IsYmdShape(trimmed) THEN StrictYmd(trimmed)
  ELSE ParseFallback(trimmed)

(***************************************************************************)
(* objectCardHtml: the fields of the edit form                             *)
(***************************************************************************)
\* s.replace(/c/g, r) for a single character c
RECURSIVE ReplaceAll(_, _, _)
ReplaceAll(s, c, r) ==
  IF s = <<>> THEN <<>>
  ELSE (IF s[1] = c THEN r ELSE <<s[1]>>) \o ReplaceAll(Tail(s), c, r)

\* esc as the source has it: each of & < " is replaced by itself
esc(s) ==
  ReplaceAll(ReplaceAll(ReplaceAll(s, "&", <<"&">>), "<", <<"<">>),
             "\"", <<"\"">>)

\* the collation order localeCompare uses, as far as the characters of labels
\* go: white space, punctuation, symbols, digits, letters; on a tie a lower
\* case letter sorts before its upper case
CollationOrder ==
  <<" ", "_", "-", ",", ";", ":", "!", "?", ".", "'", "\"", "(", ")", "@",
    "*", "/", "&", "#", "%", "+", "<", "=", ">", "$">> \o Digits \o LowerLetters

PrimaryWeight(c) ==
  LET l == toLowerCaseChar(c) IN
  IF \E i \in DOMAIN CollationOrder : CollationOrder[i] = l
  THEN CHOOSE i \in DOMAIN CollationOrder : CollationOrder[i] = l
  ELSE 0

RECURSIVE LexLess(_, _)
LexLess(a, b) ==
  IF b = <<>> THEN FALSE
  ELSE IF a = <<>> THEN TRUE
  ELSE IF a[1] # b[1] THEN a[1] < b[1]
  ELSE LexLess(Tail(a), Tail(b))

\* a.localeCompare(b) < 0
LocaleLess(a, b) ==
  LET pa == [i \in 1..Len(a) |-> PrimaryWeight(a[i])]
      pb == [i \in 1..Len(b) |-> PrimaryWeight(b[i])]
      ca == [i \in 1..Len(a) |-> IF a[i] = toLowerCaseChar(a[i]) THEN 0 ELSE 1]
      cb == [i \in 1..Len(b) |-> IF b[i] = toLowerCaseChar(b[i]) THEN 0 ELSE 1]
  IN  IF pa # pb THEN LexLess(pa, pb) ELSE LexLess(ca, cb)

\* the keys other than "Id", ordered by localeCompare
RECURSIVE SortByLocale(_)
SortByLocale(keys) ==
  IF keys = <<>> THEN <<>>
  ELSE LET least == CHOOSE i \in 1..Len(keys) :
                      \A j \in 1..Len(keys) : ~LocaleLess(keys[j], keys[i])
       IN  <<keys[least]>>
             \o SortByLocale(SelectSeq(keys, LAMBDA x : x # keys[least]))

\* Object.keys(obj).sort(...): "Id" last, the others by localeCompare
sortedKeys(obj) ==
  SortByLocale(SelectSeq(Keys(obj), LAMBDA x : x # KId))
    \o SelectSeq(Keys(obj), LAMBDA x : x = KId)

WDate == <<"d","a","t","e">>
WProbability == <<"p","r","o","b","a","b","i","l","i","t","y">>
WAmount == <<"a","m","o","u","n","t">>
WRevenue == <<"r","e","v","e","n","u","e">>

isId(key) == toLowerCase(key) = <<"i","d">>

isDateField(key) == includes(toLowerCase(key), WDate)

isProbabilityField(key) == includes(toLowerCase(key), WProbability)

isAmountField(key) ==
  includes(toLowerCase(key), WAmount) \/ includes(toLowerCase(key), WRevenue)

\* a rule that forgets the amount and revenue labels
forceTextNoAmount(key) == isProbabilityField(key) \/ isId(key)

forceText(key) == isProbabilityField(key) \/ isAmountField(key) \/ isId(key)

\* the type attribute of the field's input
InputType(key, value) ==
  IF ~forceText(key) /\ isDateField(key) /\ isIsoDate(value)
  THEN "date" ELSE "text"

\* n written with at least w digits
RECURSIVE Pad(_, _)
Pad(n, w) ==
  IF n < 10 /\ w <= 1 THEN <<Digits[n + 1]>>
  ELSE Pad(n \div 10, w - 1) \o <<Digits[(n % 10) + 1]>>

\* d.toISOString().split("T")[0]
IsoDay(date) ==
  Pad(date.y, 4) \o <<"-">> \o Pad(date.m, 2) \o <<"-">> \o Pad(date.d, 2)

\* /%\s*$/.test(value)
EndsWithPercent(value) ==
  LET t == trimEnd(value) IN t # <<>> /\ t[Len(t)] = "%"

\* value.replace(/%\s*$/, "").trim()
StripPercent(value) ==
  LET t == trimEnd(value) IN trim(SubSeq(t, 1, Len(t) - 1))

\* the value attribute of the field's input
InputValue(key, value) ==
  IF isProbabilityField(key) /\ EndsWithPercent(value)
  THEN esc(StripPercent(value))
  ELSE IF InputType(key, value) = "date" /\ ~IsYmdShape(value)
            /\ ~DateParse(value).nan
  THEN IsoDay(DateParse(value))
  ELSE esc(value)

\* a valid date string of HTML: a calendar date written YYYY-MM-DD
IsValidDateString(s) ==
  /\ IsYmdShape(s)
  /\ Number(SubSeq(s, 1, 4)) >= 1
  /\ Number(SubSeq(s, 6, 7)) \in 1..12
  /\ Number(SubSeq(s, 9, 10)) >= 1
  /\ Number(SubSeq(s, 9, 10))
       <= DaysInMonth(Number(SubSeq(s, 1, 4)), Number(SubSeq(s, 6, 7)))

\* what the browser reads of a text written between the quotes of
\* value="...": the text up to its first quote
AttributeValue(attr) ==
  IF IndexOf(attr, "\"") = 0 THEN attr
  ELSE SubSeq(attr, 1, IndexOf(attr, "\"") - 1)

\* the value the browser gives an input built from these attributes: a date
\* input whose value attribute is no valid date string starts empty
InitialValue(type, attr) ==
  LET v == AttributeValue(attr)
  IN  IF type = "date" /\ ~IsValidDateString(v) THEN <<>> ELSE v

\* one .field element of the form
FieldOf(key, value) ==
  [label |-> esc(key),
   type |-> InputType(key, value),
   value |-> InitialValue(InputType(key, value), InputValue(key, value)),
   readonly |-> isId(key),
   percent |-> isProbabilityField(key)]

objectCardHtml(obj) ==
  LET keys == sortedKeys(obj)
  IN  [i \in 1..Len(keys) |-> FieldOf(keys[i], Get(obj, keys[i]))]

(***************************************************************************)
(* The script embedded in the form                                         *)
(***************************************************************************)
\* contentRect.height + 16
ResizePadding == 16

\* the value one field contributes to getFormData
FormValue(f) ==
  LET value == trim(f.value)
  IN  IF f.percent
      THEN (IF value # <<>> THEN value \o <<"%">> ELSE <<>>)
      ELSE value

RECURSIVE CollectData(_, _)
CollectData(fs, data) ==
  IF fs = <<>> THEN data
  ELSE CollectData(Tail(fs), MapSet(data, Head(fs).label, FormValue(Head(fs))))

getFormData(fs) == CollectData(fs, <<>>)

\* s.split("T")[0]
BeforeT(s) ==
  LET i == IndexOf(s, "T") IN IF i = 0 THEN s ELSE SubSeq(s, 1, i - 1)

\* a comparison of the values as they are, dates too
NormAsIs(key, val) == val

Norm(key, val) == IF includes(toLowerCase(key), WDate) THEN BeforeT(val) ELSE val

ChangeEntry(key, normOld, normNew) ==
  Str(key) \o " from \"" \o Str(normOld) \o "\" to \"" \o Str(normNew) \o "\""

\* the loop of buildPrompt: the entries of changed
RECURSIVE Changed(_, _, _)
Changed(keys, orig, current) ==
  IF keys = <<>> THEN <<>>
  ELSE LET key == Head(keys)
           oldVal == Get(orig, key)
           newVal == IF Has(current, key) THEN Get(current, key) ELSE <<>>
           rest == Changed(Tail(keys), orig, current)
       IN  IF oldVal = newVal THEN rest
           ELSE IF Norm(key, oldVal) # Norm(key, newVal)
           THEN <<ChangeEntry(key, Norm(key, oldVal), Norm(key, newVal))>> \o rest
           ELSE rest

NoChanges == "No changes detected."

\* a buildPrompt that writes "this field" whatever the count
buildPromptSingular(orig, current) ==
  LET changed == Changed(Keys(orig), orig, current)
  IN  IF Len(changed) = 0 THEN NoChanges
      ELSE "Update this field: " \o JoinStr(changed, "; ") \o "."

buildPrompt(orig, current) ==
  LET changed == Changed(Keys(orig), orig, current)
      plural == IF Len(changed) > 1 THEN "these fields" ELSE "this field"
  IN  IF Len(changed) = 0 THEN NoChanges
      ELSE "Update " \o plural \o ": " \o JoinStr(changed, "; ") \o "."

NoData == <<>>

\* a size-change message that carries the height as observed
SizeChangeMsgNoPadding(h) ==
  [type |-> "ui-size-change", height |-> h,
   prompt |-> "", recordData |-> NoData, action |-> ""]

\* the message the resize observer posts for an entry of height h
SizeChangeMsg(h) ==
  [type |-> "ui-size-change", height |-> h + ResizePadding,
   prompt |-> "", recordData |-> NoData, action |-> ""]

\* the message save() posts
PromptMsg(prompt, current) ==
  [type |-> "prompt", height |-> 0,
   prompt |-> prompt, recordData |-> current, action |-> ""]

\* the message cancel() posts
CancelMsg ==
  [type |-> "action", height |-> 0,
   prompt |-> "", recordData |-> NoData, action |-> "cancel"]

\* a save() that posts its message twice
saveTwice(fs, orig) ==
  LET current == getFormData(fs)
      m == PromptMsg(buildPrompt(orig, current), current)
  IN  <<m, m>>

\* what one click on Save posts to the parent
save(fs, orig) ==
  LET current == getFormData(fs)
  IN  <<PromptMsg(buildPrompt(orig, current), current)>>

\* a script that takes the saved data as the new original
originalRebased(orig, current) == current

\* the original after a Save: it is a const of the script, which save() and
\* buildPrompt only read
originalAfterSave(orig, current) == orig

\* what one click on Cancel posts to the parent
cancel == <<CancelMsg>>

\* what the resize observer posts for one observed height
onResize(h) == <<SizeChangeMsg(h)>>

(***************************************************************************)
(* handleEditSingleRecord                                                  *)
(***************************************************************************)
\* the characters of the value pools that encodeURIComponent escapes
UriEscapes ==
  [c \in {" ", "\"", "#", "$", "%", "&", "+", ",", "/", ":", ";", "<", "=",
          ">", "?", "@"} |->
     CASE c = " " -> "%20" [] c = "\"" -> "%22" [] c = "#" -> "%23"
       [] c = "$" -> "%24" [] c = "%" -> "%25" [] c = "&" -> "%26"
       [] c = "+" -> "%2B" [] c = "," -> "%2C" [] c = "/" -> "%2F"
       [] c = ":" -> "%3A" [] c = ";" -> "%3B" [] c = "<" -> "%3C"
       [] c = "=" -> "%3D" [] c = ">" -> "%3E" [] c = "?" -> "%3F"
       [] c = "@" -> "%40"]

\* a code unit D800, a high surrogate that no low surrogate follows: one
\* element of a sequence of characters, written as JSON.stringify writes it
LoneSurrogate == "\\ud800"

\* encodeURIComponent throws a URIError for a string with a lone surrogate
UriMalformed(s) == \E i \in 1..Len(s) : s[i] = LoneSurrogate

\* the message of that URIError
UriMalformedMsg == "URI malformed"

\* encodeURIComponent of a string it accepts, as a TLA+ string
RECURSIVE encodeURIComponent(_)
encodeURIComponent(s) ==
  IF s = <<>> THEN ""
  ELSE (IF s[1] \in DOMAIN UriEscapes THEN UriEscapes[s[1]] ELSE s[1])
         \o encodeURIComponent(Tail(s))

\* Object.entries(obj).map(([k, v]) => `**${k}:** ${v}`).join("\n")
Summary(obj) ==
  JoinStr([i \in 1..Len(obj) |->
             "**" \o Str(obj[i].k) \o ":** " \o Str(obj[i].v)], "\n")

\* the example appended to the error text; its code fences, three backquotes
\* in the source, are written ''' (a string of this notation holds no backquote)
ExpectedFormat ==
  "\n\nExpected format:\n'''\nObject Name\n\n* Id: record-id\n"
    \o "* Name: record-name\n* AnyField: value\n* AnotherField: value\n'''"

\* obj["Id"] || "new"
ObjId(obj) ==
  IF Has(obj, KId) /\ Get(obj, KId) # <<>> THEN Get(obj, KId)
  ELSE <<"n","e","w">>

TextItem(t) == [type |-> "text", text |-> t, uri |-> ""]

ResourceItem(uri) == [type |-> "resource", text |-> "", uri |-> uri]

\* the response of the catch block for an error with the given message
EditError(message) ==
  [isError |-> TRUE,
   content |-> <<TextItem("Error parsing object text: "
                            \o message \o ExpectedFormat)>>]

handleEditSingleRecord(raw) ==
  CHOOSE r \in
    { IF ~p.ok THEN EditError(p.error.message)
      ELSE IF UriMalformed(ObjId(p.obj)) THEN EditError(UriMalformedMsg)
      ELSE [isError |-> FALSE,
            content |-> <<TextItem(Summary(p.obj)),
                          ResourceItem("ui://record/edit/"
                                         \o encodeURIComponent(ObjId(p.obj)))>>] :
      p \in { parseObjectText(raw) } } : TRUE

(***************************************************************************)
(* recordsTableHtml: the table of records                                  *)
(***************************************************************************)
\* esc of recordsTableHtml as the source has it: each of & < " is replaced by
\* itself
tableEsc(s) ==
  ReplaceAll(ReplaceAll(ReplaceAll(s, "&", <<"&">>), "<", <<"<">>),
             "\"", <<"\"">>)

\* the Set filled by allFields.add: a key is added once, where it first comes
RECURSIVE AddAll(_, _)
AddAll(set, keys) ==
  IF keys = <<>> THEN set
  ELSE AddAll(IF \E i \in 1..Len(set) : set[i] = Head(keys)
              THEN set ELSE Append(set, Head(keys)),
              Tail(keys))

\* the fields of the first record only
AllFieldsOfFirst(records, set) ==
  IF records = <<>> THEN set ELSE AddAll(set, Keys(Head(records)))

\* the field names of all the records
RECURSIVE AllFields(_, _)
AllFields(records, set) ==
  IF records = <<>> THEN set
  ELSE AllFields(Tail(records), AddAll(set, Keys(Head(records))))

\* Array.from(allFields).sort(...): "Name" first, "Id" last, the others by
\* localeCompare
TableFields(records) ==
  LET all == AllFields(records, <<>>) IN
  SelectSeq(all, LAMBDA x : x = KName)
    \o SortByLocale(SelectSeq(all, LAMBDA x : x # KName /\ x # KId))
    \o SelectSeq(all, LAMBDA x : x = KId)

\* the text of one cell
displayValue(field, val) ==
  IF val = <<>> THEN <<>>
  ELSE IF includes(toLowerCase(field), WDate) /\ isIsoDate(val)
          /\ (IsYmdShape(val) \/ ~DateParse(val).nan)
  THEN (IF IsYmdShape(val) THEN val ELSE IsoDay(DateParse(val)))
  ELSE IF includes(toLowerCase(field), WProbability)
          /\ val[Len(val)] = "%"
  THEN val
  ELSE tableEsc(val)

\* record[field] || ""
ValueOr(record, field) == IF Has(record, field) THEN Get(record, field) ELSE <<>>

\* the characters of a string in JSON.stringify
RECURSIVE JsonChars(_)
JsonChars(str) ==
  IF str = <<>> THEN <<>>
  ELSE (IF Head(str) = "\"" THEN <<"\\", "\"">>
        ELSE IF Head(str) = "\\" THEN <<"\\", "\\">>
        ELSE IF Head(str) = "\n" THEN <<"\\", "n">>
        ELSE <<Head(str)>>) \o JsonChars(Tail(str))

JsonString(str) == <<"\"">> \o JsonChars(str) \o <<"\"">>

\* JSON.stringify of a record
JSONstringify(obj) ==
  <<"{">>
    \o Join([i \in 1..Len(obj) |->
               JsonString(obj[i].k) \o <<":">> \o JsonString(obj[i].v)], <<",">>)
    \o <<"}">>

\* JSON.stringify of an array of records
JSONstringifyAll(records) ==
  <<"[">>
    \o Join([i \in 1..Len(records) |-> JSONstringify(records[i])], <<",">>)
    \o <<"]">>

\* the pieces f[lo], ..., f[hi] put together
RECURSIVE Concat(_, _, _)
Concat(f, lo, hi) ==
  IF lo > hi THEN <<>>
  ELSE IF lo = hi THEN f[lo]
  ELSE Concat(f, lo, (lo + hi) \div 2) \o Concat(f, ((lo + hi) \div 2) + 1, hi)

\* s.replace(/pat/g, to), with the i flag when ignoreCase, for a pattern no
\* two matches of which overlap
ReplacePattern(str, pat, to, ignoreCase) ==
  LET folded == IF ignoreCase THEN toLowerCase(str) ELSE str
      goal == IF ignoreCase THEN toLowerCase(pat) ELSE pat
      HitAt(i) ==
        /\ i >= 1 /\ i + Len(pat) - 1 <= Len(str)
        /\ \A j \in 1..Len(pat) : folded[i + j - 1] = goal[j]
      Covered(i) == \E j \in (i - Len(pat) + 1)..(i - 1) : HitAt(j)
      pieces == [i \in 1..Len(str) |->
                   IF HitAt(i) THEN to
                   ELSE IF Covered(i) THEN <<>> ELSE <<str[i]>>]
  IN  Concat(pieces, 1, Len(str))

ScriptEndTag == <<"<","/","s","c","r","i","p","t",">">>

ScriptEndTagEscaped == <<"<","\\","/","s","c","r","i","p","t",">">>

CommentOpener == <<"<","!","-","-">>

CommentOpenerEscaped == <<"<","\\","!","-","-">>

\* .replace(/<\/script>/gi, "<\\/script>").replace(/<!--/g, "<\\!--")
InjectSafely(json) ==
  ReplacePattern(ReplacePattern(json, ScriptEndTag, ScriptEndTagEscaped, TRUE),
                 CommentOpener, CommentOpenerEscaped, FALSE)

\* the text put into the form's script as the value of original
objJson(obj) == InjectSafely(JSONstringify(obj))

\* the text put into a row's data-record attribute
recordJson(record) == InjectSafely(JSONstringify(record))

\* the text put into the table's script as the value of allRecords
recordsJson(records) == InjectSafely(JSONstringifyAll(records))

\* one tr element: its index, its cells after the action cell, its attribute
TableRow(records, fields, index) ==
  [index |-> index - 1,
   cells |-> [j \in 1..Len(fields) |->
                displayValue(fields[j], ValueOr(records[index], fields[j]))],
   dataRecord |-> recordJson(records[index])]

NoRecordsFound == "No records found."

\* no artifact
NoTable ==
  [rendered |-> FALSE, title |-> <<>>, heading |-> <<>>, message |-> "",
   headers |-> <<>>, rows |-> <<>>, allRecords |-> <<>>]

\* the text of the title before the object type; the dash of the source is an
\* en dash
TitlePrefix == <<"R","e","c","o","r","d","s"," ","-"," ">>

HeadingSuffix == <<" ","R","e","c","o","r","d","s">>

ActionsHeader == <<"A","c","t","i","o","n","s">>

\* the page: the text of its title and heading, the th elements, the tr
\* elements and the script's allRecords, or the empty state
recordsTableHtml(records, objectType) ==
  IF Len(records) = 0
  THEN [rendered |-> TRUE,
        title |-> TitlePrefix \o objectType,
        heading |-> objectType \o HeadingSuffix,
        message |-> NoRecordsFound,
        headers |-> <<>>, rows |-> <<>>, allRecords |-> <<>>]
  ELSE LET fields == TableFields(records) IN
       [rendered |-> TRUE,
        title |-> TitlePrefix \o objectType,
        heading |-> objectType \o HeadingSuffix,
        message |-> "",
        headers |-> <<ActionsHeader>>
                      \o [j \in 1..Len(fields) |-> tableEsc(fields[j])],
        rows |-> [i \in 1..Len(records) |-> TableRow(records, fields, i)],
        allRecords |-> recordsJson(records)]

(***************************************************************************)
(* handleDisplayRecordsTable                                               *)
(***************************************************************************)
\* records.map(text => parseObjectText(text)): the outcomes up to and with the
\* first one that throws
RECURSIVE MapParse(_)
MapParse(records) ==
  IF records = <<>> THEN <<>>
  ELSE LET p == parseObjectText(Head(records)) IN
       IF p.ok THEN <<p>> \o MapParse(Tail(records)) ELSE <<p>>

\* the example appended to the error text of the table; the code fences are
\* written as in ExpectedFormat
ExpectedFormatEach ==
  "\n\nExpected format for each record:\n'''\nObject Name\n\n* Id: record-id\n"
    \o "* Name: record-name\n* AnyField: value\n* AnotherField: value\n'''"

\* `Found ${n} ${objectType} record${n === 1 ? '' : 's'}`
FoundSummary(n, objectType) ==
  "Found " \o Str(Pad(n, 1)) \o " " \o Str(objectType) \o " record"
    \o (IF n = 1 THEN "" ELSE "s")

\* parsedRecords.length > 0 ? parsedRecords[0]["Id"] : "table"
RecordsId(parsedRecords) ==
  IF Len(parsedRecords) > 0 THEN Get(parsedRecords[1], KId)
  ELSE <<"t","a","b","l","e">>

\* the response for the records that parsed and the page shown with it
TableOf(parsedRecords, objectType) ==
  [isError |-> FALSE,
   content |-> <<TextItem(FoundSummary(Len(parsedRecords), objectType)),
                 ResourceItem("ui://records/view/"
                                \o encodeURIComponent(objectType) \o "/"
                                \o encodeURIComponent(RecordsId(parsedRecords)))>>,
   html |-> recordsTableHtml(parsedRecords, objectType)]

\* a handler that leaves out the texts that fail to parse
handleDisplayRecordsTableSkip(records, objectType) ==
  LET all == [i \in 1..Len(records) |-> parseObjectText(records[i])]
      good == SelectSeq(all, LAMBDA p : p.ok)
  IN  TableOf([i \in 1..Len(good) |-> good[i].obj], objectType)

\* the response of the catch block for an error with the given message
TableError(message) ==
  [isError |-> TRUE,
   content |-> <<TextItem("Error parsing records: "
                            \o message \o ExpectedFormatEach)>>,
   html |-> NoTable]

handleDisplayRecordsTable(records, objectType) ==
  CHOOSE r \in
    UNION { IF \E i \in 1..Len(outcomes) : ~outcomes[i].ok
            THEN { TableError(outcomes[Len(outcomes)].error.message) }
            ELSE { IF UriMalformed(objectType)
                      \/ UriMalformed(RecordsId(parsedRecords))
                   THEN TableError(UriMalformedMsg)
                   ELSE TableOf(parsedRecords, objectType) :
                   parsedRecords \in
                     { [i \in 1..Len(outcomes) |-> outcomes[i].obj] } } :
            outcomes \in { MapParse(records) } } : TRUE

(***************************************************************************)
(* The script embedded in the table                                        *)
(***************************************************************************)
\* a script end tag starts at position i of a text inside a script element:
\* "</script" in any case, then ">", "/" or white space
EndTagAt(t, i) ==
  /\ i + 8 <= Len(t)
  /\ toLowerCase(SubSeq(t, i, i + 7)) = <<"<","/","s","c","r","i","p","t">>
  /\ t[i + 8] \in {">", "/", " ", "\t", "\n"}

\* what the HTML parser gives the script engine of a text written into a
\* script element: the text before its first script end tag
ScriptBody(t) ==
  IF \E i \in 1..Len(t) : EndTagAt(t, i)
  THEN SubSeq(t, 1, (CHOOSE i \in 1..Len(t) :
                       EndTagAt(t, i) /\ \A j \in 1..(i - 1) : ~EndTagAt(t, j)) - 1)
  ELSE t

\* the number of backslashes right before position i
BackslashesBefore(s, i) ==
  (i - 1) - (CHOOSE j \in 0..(i - 1) :
               /\ \A k \in (j + 1)..(i - 1) : s[k] = "\\"
               /\ (j = 0 \/ s[j] # "\\"))

\* the character at position i of a literal follows a backslash that escapes it
IsEscaped(s, i) == BackslashesBefore(s, i) % 2 = 1

\* the members of a set of numbers in ascending order
Ascending(S) ==
  [k \in 1..Cardinality(S) |->
     CHOOSE x \in S : Cardinality({ y \in S : y < x }) = k - 1]

\* the string a JavaScript string literal denotes, the literal being written
\* from the quote at position a to the quote at position b of s
StringValue(s, a, b) ==
  Concat([i \in 1..(b - a - 1) |->
            LET c == s[a + i] IN
            IF IsEscaped(s, a + i) THEN (IF c = "n" THEN <<"\n">> ELSE <<c>>)
            ELSE IF c = "\\" THEN <<>> ELSE <<c>>],
         1, b - a - 1)

\* the value of the array literal the script starts with: the objects between
\* the braces outside strings, each with the keys and values of its string
\* literals in the order written (no key of the records is an array index);
\* a text that is no array literal is a syntax error
JsRecords(s) ==
  LET quotes == { i \in 1..Len(s) : s[i] = "\"" /\ ~IsEscaped(s, i) }
      Outside(i) == Cardinality({ q \in quotes : q < i }) % 2 = 0
      opens == { i \in 1..Len(s) : s[i] = "{" /\ i \notin quotes /\ Outside(i) }
      closes == { i \in 1..Len(s) : s[i] = "}" /\ i \notin quotes /\ Outside(i) }
      q == Ascending(quotes)
      o == Ascending(opens)
      c == Ascending(closes)
      Within(k) == { n \in 1..Len(q) : o[k] < q[n] /\ q[n] < c[k] }
      ObjectAt(k) ==
        LET ns == Ascending(Within(k))
        IN  [e \in 1..(Len(ns) \div 4) |->
               [k |-> StringValue(s, q[ns[4 * e - 3]], q[ns[4 * e - 2]]),
                v |-> StringValue(s, q[ns[4 * e - 1]], q[ns[4 * e]])]]
  IN  IF /\ Len(s) >= 2 /\ s[1] = "[" /\ s[Len(s)] = "]"
         /\ Cardinality(quotes) % 4 = 0
         /\ Cardinality(opens) = Cardinality(closes)
         /\ \A k \in 1..Len(o) : o[k] < c[k] /\ (k < Len(o) => c[k] < o[k + 1])
      THEN [ok |-> TRUE, records |-> [k \in 1..Len(o) |-> ObjectAt(k)]]
      ELSE [ok |-> FALSE, records |-> <<>>]

\* the script of a page with rows: whether it runs, and its allRecords; the
\* page of the empty state has no script
TableScript(page) ==
  IF ~page.rendered \/ page.rows = <<>>
  THEN [ok |-> FALSE, records |-> <<>>]
  ELSE JsRecords(ScriptBody(page.allRecords))

\* record.Name || fallback
NameOr(record, fallback) ==
  IF Has(record, KName) /\ Get(record, KName) # <<>>
  THEN Get(record, KName) ELSE fallback

\* the text of a record for the edit tool
formatRecordForEdit(record) ==
  NameOr(record, <<"R","e","c","o","r","d">>)
    \o Concat([i \in 1..Len(record) |->
                 IF record[i].k # KName
                 THEN <<"\n", "*", " ">> \o record[i].k \o <<":", " ">>
                        \o record[i].v
                 ELSE <<>>],
              1, Len(record))

\* the message editRecord posts
EditMsg(prompt, txt) ==
  [type |-> "prompt", height |-> 0, prompt |-> prompt, text |-> txt]

\* the message the table's resize observer posts for an entry of height h
TableSizeMsg(h) ==
  [type |-> "ui-size-change", height |-> h + ResizePadding, prompt |-> "",
   text |-> <<>>]

\* what editRecord(recordIndex) posts to the parent
editRecord(allRecords, recordIndex) ==
  IF recordIndex + 1 \in 1..Len(allRecords)
  THEN LET record == allRecords[recordIndex + 1] IN
       <<EditMsg("Edit this " \o Str(NameOr(record, <<"r","e","c","o","r","d">>))
                   \o " record in the UI form:",
                 formatRecordForEdit(record))>>
  ELSE <<>>

\* what the onclick of a row posts: editRecord(index), which is not defined
\* when the script did not run
RowHandler(script, index) ==
  IF script.ok THEN editRecord(script.records, index) ELSE <<>>

\* a click on a row outside its button
RowClick(script, index) == RowHandler(script, index)

\* a click on the Edit button of a row: the button's onclick stops the
\* propagation, so the onclick of the row does not run
ButtonClick(script, index) == RowHandler(script, index)

\* what the table's resize observer posts for one observed height
tableOnResize(h) == <<TableSizeMsg(h)>>

\* a listener that takes the fields of the form from a message of the host
formOnMessageFill(fs, m) == [i \in 1..Len(fs) |-> [fs[i] EXCEPT !.value = m]]

\* neither script adds a listener for messages: a message of the host leaves
\* the fields of the form and the records of the table as they are
formOnMessage(fs, m) == fs

tableOnMessage(script, m) == script

(***************************************************************************)
(* The request handler of the server                                       *)
(***************************************************************************)
DescribeTool == "salesforce_describe_object"

QueryTool == "salesforce_query_records"

AggregateTool == "salesforce_aggregate_query"

DmlTool == "salesforce_dml_records"

EditTool == "salesforce_edit_record"

TableTool == "salesforce_view_records_table"

DetailTool == "salesforce_view_record_detail"

\* what a handler or the try block of the request handler ends with: an
\* exception with a message, or a response
Throws(message) ==
  [thrown |-> TRUE, message |-> message, isError |-> FALSE, content |-> <<>>]

Returns(isError, content) ==
  [thrown |-> FALSE, message |-> "", isError |-> isError, content |-> content]

\* the message of the error a call to the data store fails with
StoreMessage == "INVALID_SESSION_ID"

\* the message of the error createSalesforceConnection fails with
ConnectionMessage == "Failed to connect"

\* the text the data store's answer is written as
StoreAnswer == "[]"

\* conn.describe(objectName), then the answer as text
handleDescribeObject(req) ==
  IF req.store = "throws" THEN Throws(StoreMessage)
  ELSE Returns(FALSE, <<TextItem(StoreAnswer)>>)

\* the fields are plain field names: the check of relationship fields passes,
\* and an error of conn.query is answered by the handler's own catch block
handleQueryRecords(req) ==
  IF req.store = "throws"
  THEN Returns(TRUE, <<TextItem("Error executing query: " \o StoreMessage)>>)
  ELSE Returns(FALSE, <<TextItem(StoreAnswer)>>)

\* handleAggregateQuery, whose code is in a file that is not at hand: it ends
\* with a response or with an exception
handleAggregateQuery(req) ==
  IF req.store = "throws" THEN Throws(StoreMessage)
  ELSE Returns(FALSE, <<TextItem(StoreAnswer)>>)

handleDMLRecords(req) ==
  IF req.operation \in {"insert", "update", "delete"}
  THEN (IF req.store = "throws" THEN Throws(StoreMessage)
        ELSE Returns(FALSE, <<TextItem(StoreAnswer)>>))
  ELSE IF req.operation = "upsert"
  THEN (IF req.externalIdField = ""
        THEN Throws("externalIdField is required for upsert operations")
        ELSE IF req.store = "throws" THEN Throws(StoreMessage)
        ELSE Returns(FALSE, <<TextItem(StoreAnswer)>>))
  ELSE Throws("Unsupported operation: " \o req.operation)

\* handleViewRecordDetail, whose code is in a file that is not at hand: it
\* ends with a response or with an exception
handleViewRecordDetail(req) ==
  IF req.store = "throws" THEN Throws(StoreMessage)
  ELSE Returns(FALSE, <<TextItem(StoreAnswer)>>)

\* the switch over the tool name, the connection being made
SwitchName(req) ==
  IF req.name = DescribeTool
  THEN (IF req.objectName = "" THEN Throws("objectName is required")
        ELSE handleDescribeObject(req))
  ELSE IF req.name = QueryTool
  THEN (IF req.objectName = "" \/ ~req.list
        THEN Throws("objectName and fields array are required for query")
        ELSE handleQueryRecords(req))
  ELSE IF req.name = AggregateTool
  THEN (IF req.objectName = "" \/ ~req.list \/ ~req.groupBy
        THEN Throws("objectName, selectFields array, and groupByFields array are required for aggregate query")
        ELSE handleAggregateQuery(req))
  ELSE IF req.name = DmlTool
  THEN (IF req.operation = "" \/ req.objectName = "" \/ ~req.list
        THEN Throws("operation, objectName, and records array are required for DML")
        ELSE handleDMLRecords(req))
  ELSE IF req.name = EditTool
  THEN (IF req.text = <<>>
        THEN Throws("text is required for editing record")
        ELSE CHOOSE o \in { Returns(r.isError, r.content) :
                              r \in { handleEditSingleRecord(req.text) } } :
               TRUE)
  ELSE IF req.name = TableTool
  THEN (IF ~req.list \/ req.objectType = <<>>
        THEN Throws("records array and objectType are required for viewing records table")
        ELSE CHOOSE o \in { Returns(r.isError, r.content) :
                              r \in { handleDisplayRecordsTable(
                                        req.records, req.objectType) } } :
               TRUE)
  ELSE IF req.name = DetailTool
  THEN (IF req.text = <<>>
        THEN Throws("text is required for viewing record detail")
        ELSE handleViewRecordDetail(req))
  ELSE Returns(TRUE, <<TextItem("Unknown tool: " \o req.name)>>)

\* the try block of the request handler
TryCallTool(req) ==
  IF ~req.hasArguments THEN Throws("Arguments are required")
  ELSE IF req.connection = "fails" THEN Throws(ConnectionMessage)
  ELSE SwitchName(req)

\* what the request handler ends with: a response, or an exception that
\* leaves it
Answered(isError, content) ==
  [escaped |-> FALSE, isError |-> isError, content |-> content]

Escaped == [escaped |-> TRUE, isError |-> FALSE, content |-> <<>>]

\* a request handler without its catch block
callToolNoCatch(req) ==
  CHOOSE r \in { IF o.thrown THEN Escaped ELSE Answered(o.isError, o.content) :
                   o \in { TryCallTool(req) } } : TRUE

\* the request handler of CallToolRequestSchema
callTool(req) ==
  CHOOSE r \in { IF o.thrown
                 THEN Answered(TRUE, <<TextItem("Error: " \o o.message)>>)
                 ELSE Answered(o.isError, o.content) :
                   o \in { TryCallTool(req) } } : TRUE

(***************************************************************************)
(* Inputs of the model                                                     *)
(***************************************************************************)
NL == <<"\n">>

BulletLine(label, value) == <<"*", " ">> \o label \o <<":", " ">> \o value

\* lines of the texts given to the parser
LinePool ==
  { <<"O","p","p">>,
    <<"X",":"," ","y">>,
    <<"*"," ","i","D",":"," ","7">>,
    <<"*"," ","N","a","m","e",":"," ","A","c">>,
    <<"*","N","A","M","E",":","B"," ">>,
    <<"*"," ","a","_","b",":"," ","2">>,
    <<" ","*"," ","A"," ","b",":"," ","3">>,
    <<"*"," ","_","x",":"," ","4">>,
    <<"*"," ","b","a","d">> }

ParserTexts ==
  { Join(ls, NL) : ls \in UNION { [1..n -> LinePool] : n \in 1..MaxLines } }

\* labels and values of the extra field of the records shown in a form
FieldLabels ==
  { <<"P","r","o","b","a","b","i","l","i","t","y">>,
    <<"c","l","o","s","e","_","d","a","t","e">>,
    <<"A","m","o","u","n","t"," ","D","a","t","e">>,
    <<"p","r","o","b","a","b","i","l","i","t","y"," ","d","a","t","e">>,
    <<"R","e","v","e","n","u","e","D","a","t","e">>,
    <<"S","t","a","g","e">> }

FieldValues ==
  { <<"4","0","%">>,
    <<"4","0">>,
    <<"4","0"," ","%">>,
    <<"2","0","2","4","-","0","1","-","0","5">>,
    <<"2","0","2","4","-","0","1","-","0","5","T","1","0",":","0","0","Z">>,
    <<"2","0","2","4","-","0","2","-","3","0">>,
    <<"2","0","2","4","-","0","1">>,
    <<"$","1","0","0">>,
    <<"a","b","c">> }

FormTexts ==
  { <<"O","p","p">> \o NL \o NL
      \o BulletLine(KId, <<"0","0","6">>) \o NL
      \o BulletLine(KName, <<"A","c","m","e">>) \o NL
      \o BulletLine(l, v) : l \in FieldLabels, v \in FieldValues }

\* texts whose Id holds a lone surrogate
SurrogateTexts ==
  { <<"O","p","p">> \o NL
      \o BulletLine(KId, pre \o <<LoneSurrogate>>) \o NL
      \o BulletLine(KName, <<"A","c","m","e">>) : pre \in { <<>>, <<"0","0">> } }

\* texts that parseObjectText rejects: no line, no name line, no Name field,
\* no Id field, a label with an empty word
FailingTexts ==
  { <<>>,
    BulletLine(KId, <<"0","0","6">>) \o NL \o BulletLine(KName, <<"A">>),
    <<"O","p","p">> \o NL \o BulletLine(KId, <<"0","0","6">>),
    <<"O","p","p">> \o NL \o BulletLine(KName, <<"A">>),
    <<"O","p","p">> \o NL \o BulletLine(KId, <<"0","0","6">>) \o NL
      \o BulletLine(KName, <<"A">>) \o NL \o BulletLine(<<"_","x">>, <<"4">>) }

\* the texts given to the edit handler
HandlerTexts == FormTexts \cup SurrogateTexts \cup FailingTexts

\* a request with a tool name, arguments that hold nothing, a connection that
\* is made and a data store that answers
BaseRequest(name) ==
  [name |-> name, hasArguments |-> TRUE, objectName |-> "", list |-> FALSE,
   groupBy |-> FALSE, operation |-> "", externalIdField |-> "", text |-> <<>>,
   records |-> <<>>, objectType |-> <<>>, connection |-> "ok",
   store |-> "returns"]

\* a text the parser accepts and one it rejects
ValidText ==
  <<"O","p","p">> \o NL \o BulletLine(KId, <<"0","0","6">>) \o NL
    \o BulletLine(KName, <<"A","c","m","e">>)

InvalidText == <<"O","p","p">> \o NL \o BulletLine(KId, <<"0","0","6">>)

AccountType == <<"A","c","c","o","u","n","t">>

\* the names and arguments of the requests: each tool with and without what
\* it requires, and a name that is no tool
ToolRequests ==
  { [BaseRequest(DescribeTool) EXCEPT !.objectName = o] : o \in {"", "Account"} }
    \cup { [BaseRequest(QueryTool) EXCEPT !.objectName = "Account", !.list = l] :
             l \in BOOLEAN }
    \cup { [BaseRequest(AggregateTool) EXCEPT !.objectName = "Account",
                                              !.list = TRUE, !.groupBy = g] :
             g \in BOOLEAN }
    \cup { [BaseRequest(DmlTool) EXCEPT !.objectName = "Account", !.list = TRUE,
                                        !.operation = op,
                                        !.externalIdField = e] :
             op \in {"", "insert", "delete", "upsert", "merge"},
             e \in {"", "Ext__c"} }
    \cup { [BaseRequest(EditTool) EXCEPT !.text = t] :
             t \in {<<>>, ValidText, InvalidText} }
    \cup { [BaseRequest(TableTool) EXCEPT !.list = TRUE, !.records = rs,
                                          !.objectType = ot] :
             rs \in {<<>>, <<ValidText>>, <<ValidText, InvalidText>>},
             ot \in {<<>>, AccountType} }
    \cup { [BaseRequest(TableTool) EXCEPT !.objectType = AccountType] }
    \cup { [BaseRequest(DetailTool) EXCEPT !.text = t] : t \in {<<>>, ValidText} }
    \cup { BaseRequest("salesforce_drop_object") }

\* the requests: each of them with and without arguments, with the connection
\* made or failing, and with the data store answering or failing
Requests ==
  { [r EXCEPT !.hasArguments = a, !.connection = c, !.store = st] :
      r \in ToolRequests, a \in BOOLEAN, c \in {"ok", "fails"},
      st \in {"returns", "throws"} }

\* what the host may post to an artifact: the values of a field
HostMessages == { <<"x">>, <<"2","0","2","4","-","0","3","-","0","1">> }

\* the texts of the batches given to the table
TableTexts ==
  {
    \* a record with markup characters in its values
    <<"A","c","c","\n","*"," ","I","d",":"," ","0","0","1","\n","*"," ","N",
      "a","m","e",":"," ","A","&","B","\n","*"," ","S","t","a","g","e",":",
      " ","<","b",">","x","<","/","b",">">>,
    \* a record with a date and time and a probability
    <<"O","p","p","\n","*"," ","I","d",":"," ","0","0","2","\n","*"," ","N",
      "a","m","e",":"," ","B","o","\n","*"," ","C","l","o","s","e"," ","D",
      "a","t","e",":"," ","2","0","2","4","-","0","1","-","0","5","T","1",
      "0",":","0","0","Z","\n","*"," ","P","r","o","b","a","b","i","l","i",
      "t","y",":"," ","<","i",">","4","0","%">>,
    \* a record with a quote and an end tag written with a space
    <<"O","p","p","\n","*"," ","I","d",":"," ","0","0","3","\n","*"," ","N",
      "a","m","e",":"," ","i","t","'","s","\n","*"," ","N","o","t","e",":",
      " ","<","/","s","c","r","i","p","t"," ",">">>,
    \* a record with an end tag in capitals and a comment opener
    <<"O","p","p","\n","*"," ","I","d",":"," ","0","0","4","\n","*"," ","N",
      "a","m","e",":"," ","C","y","\n","*"," ","N","o","t","e",":"," ","<",
      "/","S","C","R","I","P","T",">","<","!","-","-">>,
    \* a text without an Id bullet
    <<"O","p","p","\n","*"," ","N","a","m","e",":"," ","D","e","e">>,
    \* a text without a name line
    <<"*"," ","I","d",":"," ","0","0","6","\n","*"," ","N","a","m","e",":",
      " ","E","v","e">> }

TableBatches == UNION { [1..n -> TableTexts] : n \in 0..MaxBatch }

\* the texts of the forms and the batches of the tables that are shown
ArtifactTexts ==
  { <<"O","p","p">> \o NL \o NL
      \o BulletLine(KId, <<"0","0","6">>) \o NL
      \o BulletLine(KName, <<"A","c","m","e">>) \o NL
      \o BulletLine(l, v) :
      l \in { <<"P","r","o","b","a","b","i","l","i","t","y">>,
              <<"c","l","o","s","e","_","d","a","t","e">>,
              <<"U","p","d","a","t","e"," ","N","o","t","e","s">> },
      v \in { <<"4","0","%">>,
              <<"2","0","2","4","-","0","1","-","0","5","T","1","0",":","0",
                "0","Z">>,
              <<"T","B","D">> } }
  \cup { <<"O","p","p">> \o NL
           \o BulletLine(KId, <<"0","\"","6">>) \o NL
           \o BulletLine(KName, <<"A","c","m","e">>) }

PageBatches == { <<>> } \cup { <<t>> : t \in TableTexts }
                 \cup { <<t, u>> : t, u \in TableTexts }

\* the object types given with a batch
ObjectTypes == { <<"A","c","c","o","u","n","t">>, <<"<","b",">">> }

\* what the user can put into an input of the given type
EditValues(type) ==
  IF type = "date"
  THEN { <<>>, <<"2","0","2","4","-","0","3","-","0","1">> }
  ELSE { <<>>, <<" ","5","0"," ">> }

\* the content heights the resize observer reports
Heights == { 120, 480 }

\* values given to the date check: dates of the strict shape around the edges
\* of the three ranges, strings of digits, and values with and without the
\* characters the check blocks
IsoYears == { 1899, 1900, 2024, 2100, 2101 }

IsoMonths == { 0, 1, 2, 12, 13 }

IsoDays == { 0, 1, 30, 31, 32 }

YmdValues ==
  { Pad(y, 4) \o <<"-">> \o Pad(m, 2) \o <<"-">> \o Pad(d, 2) :
      y \in IsoYears, m \in IsoMonths, d \in IsoDays }

DigitStrings == UNION { [1..n -> {"0", "2"}] : n \in 1..MaxDigits }

IsoCores ==
  { <<>>,
    <<"a","b","c">>,
    <<"4","0">>,
    <<"1",",","2","3","4">>,
    <<"2","0","2","4","-","0","1">>,
    <<"2","0","2","4","-","0","1","-","0","5">>,
    <<"2","0","2","4","-","0","1","-","0","5","T","1","0",":","0","0","Z">>,
    <<"1","8","0","0","-","0","1","-","0","5","T","1","0",":","0","0","Z">>,
    <<"J","a","n"," ","5"," ","2","0","2","4">>,
    <<"J","a","n"," ","5",","," ","2","0","2","4">> }

IsoPrefixes == { <<>>, <<" ">>, <<"$">> }

IsoSuffixes == { <<>>, <<" ">>, <<"%">>, <<"%"," ">>, <<"$">> }

IsoValues ==
  YmdValues \cup DigitStrings
    \cup { p \o c \o x : p \in IsoPrefixes, c \in IsoCores, x \in IsoSuffixes }

(***************************************************************************)
(* State                                                                   *)
(***************************************************************************)
VARIABLES
  text,          \* the text argument of the tool call
  pc,            \* "call": not yet handled; "form": the form is shown;
                 \* "error": the handler returned an error response
  parsed,        \* what parseObjectText did with text: returned or thrown
  response,      \* the response of handleEditSingleRecord
  original,      \* the record embedded in the form's script
  fields,        \* the .field elements of the form, with their input values
  msgs,          \* the messages posted to the parent, in order
  saveClicks,    \* number of clicks on Save
  cancelClicks,  \* number of clicks on Cancel
  edited,        \* the user has changed some input since the render
  value,         \* the argument of a call of isIsoDate
  isoDate,       \* whether isIsoDate has returned, and what
  batch,         \* the records argument of the table tool call
  objectType,    \* the objectType argument of the table tool call
  tpc,           \* "call": not yet handled; "table": the table is shown;
                 \* "error": the table handler returned an error response
  tableResponse, \* the response of handleDisplayRecordsTable
  table,         \* the page shown with the response
  tscript,       \* the script of the page: whether it runs, and its allRecords
  tmsgs,         \* the messages the page posted to the parent, in order
  clicked,       \* the indexes of the rows clicked, in order
  inbound,       \* the host has posted a message to the artifact
  served,        \* number of requests the request handler has ended
  request,       \* the last request
  result,        \* what the request handler ended the last request with
  failedBefore   \* a request before the last one ended with an error

vars ==
  <<text, pc, parsed, response, original, fields, msgs, saveClicks,
    cancelClicks, edited, value, isoDate, batch, objectType, tpc,
    tableResponse, table, tscript, tmsgs, clicked, inbound, served, request,
    result, failedBefore>>

serverVars == <<served, request, result, failedBefore>>

tableVars ==
  <<batch, objectType, tpc, tableResponse, table, tscript, tmsgs, clicked>>

isoVars == <<value, isoDate>>

formVars ==
  <<text, pc, parsed, response, original, fields, msgs, saveClicks,
    cancelClicks, edited>>

NotCalled ==
  /\ pc = "call"
  /\ parsed = Returned(<<>>)
  /\ response = [isError |-> FALSE, content |-> <<>>]
  /\ original = <<>>
  /\ fields = <<>>
  /\ msgs = <<>>
  /\ saveClicks = 0
  /\ cancelClicks = 0
  /\ edited = FALSE

\* isIsoDate has not been called
NotChecked == isoDate = [done |-> FALSE, result |-> FALSE]

\* the table tool has not been called
NoTableCall ==
  /\ tpc = "call"
  /\ tableResponse = [isError |-> FALSE, content |-> <<>>]
  /\ table = NoTable
  /\ tscript = TableScript(NoTable)
  /\ tmsgs = <<>>
  /\ clicked = <<>>

\* no table tool call is made
NoBatch == batch = <<>> /\ objectType = <<>> /\ NoTableCall

\* the server has had no request
NoRequest ==
  /\ served = 0
  /\ request = BaseRequest("")
  /\ result = Answered(FALSE, <<>>)
  /\ failedBefore = FALSE
  /\ inbound = FALSE

Init ==
  /\ text \in FormTexts /\ NotCalled
  /\ value = <<>> /\ NotChecked
  /\ NoBatch /\ NoRequest

InitParse ==
  /\ text \in ParserTexts /\ NotCalled
  /\ value = <<>> /\ NotChecked
  /\ NoBatch /\ NoRequest

InitHandler ==
  /\ text \in HandlerTexts /\ NotCalled
  /\ value = <<>> /\ NotChecked
  /\ NoBatch /\ NoRequest

InitIso ==
  /\ text = <<>> /\ NotCalled
  /\ value \in IsoValues /\ NotChecked
  /\ NoBatch /\ NoRequest

InitTable ==
  /\ text = <<>> /\ NotCalled
  /\ value = <<>> /\ NotChecked
  /\ batch \in TableBatches /\ objectType \in ObjectTypes /\ NoTableCall
  /\ NoRequest

InitArtifact ==
  /\ value = <<>> /\ NotChecked /\ NoRequest
  /\ \/ text \in ArtifactTexts /\ NotCalled /\ NoBatch
     \/ /\ text = <<>> /\ NotCalled
        /\ batch \in PageBatches /\ objectType = AccountType /\ NoTableCall

InitServer ==
  /\ text = <<>> /\ NotCalled
  /\ value = <<>> /\ NotChecked
  /\ NoBatch /\ NoRequest

(***************************************************************************)
(* Actions                                                                 *)
(***************************************************************************)
\* the tool call: parse, then render the form or return the error
HandleEditSingleRecord ==
  /\ pc = "call"
  /\ \E p \in { parseObjectText(text) }, r \in { handleEditSingleRecord(text) } :
       /\ parsed' = p
       /\ response' = r
       /\ pc' = IF r.isError THEN "error" ELSE "form"
       /\ original' = IF r.isError THEN <<>> ELSE p.obj
       /\ fields' = IF r.isError THEN <<>> ELSE objectCardHtml(p.obj)
  /\ UNCHANGED <<text, msgs, saveClicks, cancelClicks, edited>>
  /\ UNCHANGED <<isoVars, tableVars, serverVars, inbound>>

\* the user changes the value of an input that is not read-only
Edit ==
  /\ pc = "form"
  /\ \E i \in 1..Len(fields) :
       /\ ~fields[i].readonly
       /\ \E v \in EditValues(fields[i].type) :
            /\ v # fields[i].value
            /\ fields' = [fields EXCEPT ![i].value = v]
  /\ edited' = TRUE
  /\ UNCHANGED <<text, pc, parsed, response, original, msgs, saveClicks,
                 cancelClicks>>
  /\ UNCHANGED <<isoVars, tableVars, serverVars, inbound>>

\* a click on Save
Save ==
  /\ pc = "form"
  /\ Len(msgs) < MaxMsgs
  /\ msgs' = msgs \o save(fields, original)
  /\ original' = originalAfterSave(original, getFormData(fields))
  /\ saveClicks' = saveClicks + 1
  /\ UNCHANGED <<text, pc, parsed, response, fields, cancelClicks, edited>>
  /\ UNCHANGED <<isoVars, tableVars, serverVars, inbound>>

\* a click on Cancel
Cancel ==
  /\ pc = "form"
  /\ Len(msgs) < MaxMsgs
  /\ msgs' = msgs \o cancel
  /\ cancelClicks' = cancelClicks + 1
  /\ UNCHANGED <<text, pc, parsed, response, original, fields, saveClicks,
                 edited>>
  /\ UNCHANGED <<isoVars, tableVars, serverVars, inbound>>

\* the resize observer reports a content height
Resize ==
  /\ pc = "form"
  /\ Len(msgs) < MaxMsgs
  /\ \E h \in Heights : msgs' = msgs \o onResize(h)
  /\ UNCHANGED <<text, pc, parsed, response, original, fields, saveClicks,
                 cancelClicks, edited>>
  /\ UNCHANGED <<isoVars, tableVars, serverVars, inbound>>

\* one call of isIsoDate
IsIsoDate ==
  /\ ~isoDate.done
  /\ isoDate' = [done |-> TRUE, result |-> isIsoDate(value)]
  /\ UNCHANGED <<formVars, value, tableVars, serverVars, inbound>>

\* the table tool call: parse every text, then render the table or return
\* the error
HandleDisplayRecordsTable ==
  /\ tpc = "call"
  /\ \E r \in { handleDisplayRecordsTable(batch, objectType) } :
       /\ tableResponse' = [isError |-> r.isError, content |-> r.content]
       /\ table' = r.html
       /\ tscript' = TableScript(r.html)
       /\ tpc' = IF r.isError THEN "error" ELSE "table"
  /\ UNCHANGED <<formVars, isoVars, batch, objectType, tmsgs, clicked,
                 serverVars, inbound>>

\* a click on the Edit button of a row
ClickButton ==
  /\ tpc = "table"
  /\ Len(clicked) < MaxMsgs
  /\ \E i \in 1..Len(table.rows) :
       /\ tmsgs' = tmsgs \o ButtonClick(tscript, table.rows[i].index)
       /\ clicked' = Append(clicked, [index |-> table.rows[i].index,
                                      button |-> TRUE])
  /\ UNCHANGED <<formVars, isoVars, batch, objectType, tpc, tableResponse,
                 table, tscript, serverVars, inbound>>

\* a click on a row outside its button
ClickRow ==
  /\ tpc = "table"
  /\ Len(clicked) < MaxMsgs
  /\ \E i \in 1..Len(table.rows) :
       /\ tmsgs' = tmsgs \o RowClick(tscript, table.rows[i].index)
       /\ clicked' = Append(clicked, [index |-> table.rows[i].index,
                                      button |-> FALSE])
  /\ UNCHANGED <<formVars, isoVars, batch, objectType, tpc, tableResponse,
                 table, tscript, serverVars, inbound>>

\* the resize observer of the table reports a content height; there is an
\* observer only when the script ran
TableResize ==
  /\ tpc = "table"
  /\ tscript.ok
  /\ Len(tmsgs) < MaxMsgs
  /\ \E h \in Heights : tmsgs' = tmsgs \o tableOnResize(h)
  /\ UNCHANGED <<formVars, isoVars, batch, objectType, tpc, tableResponse,
                 table, tscript, clicked, serverVars, inbound>>

\* the host posts a message to the form
HostMessage ==
  /\ pc = "form"
  /\ \E m \in HostMessages :
       /\ fields' = formOnMessage(fields, m)
  /\ inbound' = TRUE
  /\ UNCHANGED <<text, pc, parsed, response, original, msgs, saveClicks,
                 cancelClicks, edited>>
  /\ UNCHANGED <<isoVars, tableVars, serverVars>>

\* the host posts a message to the table
TableHostMessage ==
  /\ tpc = "table"
  /\ \E m \in HostMessages :
       /\ tscript' = tableOnMessage(tscript, m)
  /\ inbound' = TRUE
  /\ UNCHANGED <<formVars, isoVars, batch, objectType, tpc, tableResponse,
                 table, tmsgs, clicked, serverVars>>

\* one request, from its arrival to the end of the request handler
CallTool ==
  /\ served < MaxRequests
  /\ \E req \in Requests :
       \E r \in { callTool(req) } :
         /\ request' = req
         /\ result' = r
  /\ failedBefore' = (failedBefore \/ (served > 0 /\ result.isError))
  /\ served' = served + 1
  /\ UNCHANGED <<formVars, isoVars, tableVars, inbound>>

Next == HandleEditSingleRecord \/ Edit \/ Save \/ Cancel \/ Resize

\* the form artifact, from the tool call on
Spec == Init /\ [][Next]_vars

\* the parser and the handler over the texts of ParserTexts
SpecParse == InitParse /\ [][HandleEditSingleRecord]_vars

\* the form with its inputs and its Save button only
SpecSave == Init /\ [][HandleEditSingleRecord \/ Edit \/ Save]_vars

\* the edit handler over the texts of HandlerTexts
SpecHandler == InitHandler /\ [][HandleEditSingleRecord]_vars

\* the steps of the two artifacts
NextArtifact ==
  \/ HandleEditSingleRecord \/ Edit \/ Save \/ Cancel \/ Resize \/ HostMessage
  \/ HandleDisplayRecordsTable \/ ClickButton \/ ClickRow \/ TableResize
  \/ TableHostMessage

\* a form or a table, from the tool call on, with the messages of the host
SpecArtifact == InitArtifact /\ [][NextArtifact]_vars

\* the server over the requests of Requests
SpecServer == InitServer /\ [][CallTool]_vars

\* the table tool over the batches of TableBatches
SpecTable == InitTable /\ [][HandleDisplayRecordsTable]_vars

\* the date check over the values of IsoValues
SpecIso == InitIso /\ [][IsIsoDate]_vars

(***************************************************************************)
(* What the claims speak of                                                *)
(***************************************************************************)
\* the tool call has been handled
Handled == pc # "call"

HasNameLine(raw) == \E i \in 1..Len(Lines(raw)) : ~IsBullet(Lines(raw)[i])

\* the bullet lines of a text that match the label: value pattern, in order
WellFormed(raw) ==
  SelectSeq(Lines(raw), LAMBDA l : IsBullet(l) /\ MatchBullet(l).matched)

\* the distinct case-insensitive labels of a text
LabelsOf(raw) ==
  { toLowerCase(MatchBullet(WellFormed(raw)[i]).key) :
      i \in 1..Len(WellFormed(raw)) }

HasLabel(raw, lower) == lower \in LabelsOf(raw)

LinesWithLabel(raw, lower) ==
  SelectSeq(WellFormed(raw),
            LAMBDA l : toLowerCase(MatchBullet(l).key) = lower)

FirstCasing(raw, lower) == MatchBullet(Head(LinesWithLabel(raw, lower))).key

LastValue(raw, lower) ==
  LET ls == LinesWithLabel(raw, lower) IN MatchBullet(ls[Len(ls)]).value

\* a text with its bullet lines that do not match the pattern taken out
WithoutUnmatched(raw) ==
  Join(SelectSeq(SplitLines(raw),
                 LAMBDA l : ~(IsBullet(trim(l)) /\ ~MatchBullet(trim(l)).matched)),
       NL)

LowerId == <<"i","d">>
LowerName == <<"n","a","m","e">>

PromptCount == Cardinality({ i \in 1..Len(msgs) : msgs[i].type = "prompt" })

ActionCount == Cardinality({ i \in 1..Len(msgs) : msgs[i].type = "action" })

(***************************************************************************)
(* Claims                                                                  *)
(***************************************************************************)
\* C1: a Save pressed on a form whose inputs the user never changed posts the
\* prompt "No changes detected.", for every record the parser can return.
C1_RoundTripNoChanges ==
  ~edited => \A i \in 1..Len(msgs) :
               msgs[i].type = "prompt" => msgs[i].prompt = NoChanges

C3_CancelIsTerminal ==
  \A i, j \in 1..Len(msgs) :
    (i < j /\ msgs[i].type = "action") => msgs[j].type = "ui-size-change"

\* C4: a text with a name line and Id and Name bullets parses, and the record
\* has one entry per distinct case-insensitive label of its well-formed
\* bullets, under the Title-Cased first casing of the label, holding the value
\* of the last bullet with that label.
C4_EveryFieldKept ==
  (Handled /\ HasNameLine(text) /\ HasLabel(text, LowerId)
     /\ HasLabel(text, LowerName)) =>
    /\ parsed.ok
    /\ Len(parsed.obj) = Cardinality(LabelsOf(text))
    /\ \A l \in LabelsOf(text) :
         /\ Has(parsed.obj, TitleCase(FirstCasing(text, l)))
         /\ Get(parsed.obj, TitleCase(FirstCasing(text, l))) = LastValue(text, l)

\* C5: the value under "Name" of a returned record is the first line of the
\* text that starts with no bullet marker.
C5_NameIsNameLine ==
  (Handled /\ parsed.ok) => Get(parsed.obj, KName) = NameLine(Lines(text))

\* C6 as stated: a text without a well-formed Id bullet or without a
\* well-formed Name bullet fails to parse with a message naming exactly the
\* missing labels, also when the text has no name line.
C6_MissingNamed ==
  (Handled /\ (~HasLabel(text, LowerId) \/ ~HasLabel(text, LowerName))) =>
    /\ ~parsed.ok
    /\ parsed.error.message =
         (IF HasLabel(text, LowerId) THEN "Missing required fields: Name"
          ELSE IF HasLabel(text, LowerName) THEN "Missing required fields: Id"
          ELSE "Missing required fields: Name, Id")

\* C6 amended: such a text fails to parse; when it has a name line the message
\* names exactly the missing labels, and when it has none the message is the
\* missing object name one.
C6_MissingNamedGivenNameLine ==
  (Handled /\ (~HasLabel(text, LowerId) \/ ~HasLabel(text, LowerName))) =>
    /\ ~parsed.ok
    /\ parsed.error.message =
         (IF ~HasNameLine(text)
          THEN "Missing object name (first non-bullet line)."
          ELSE IF HasLabel(text, LowerId) THEN "Missing required fields: Name"
          ELSE IF HasLabel(text, LowerName) THEN "Missing required fields: Id"
          ELSE "Missing required fields: Name, Id")

\* a text with a name line and no bullet at all, whose failure names both labels
C6_Witness ==
  /\ pc = "error"
  /\ HasNameLine(text)
  /\ LabelsOf(text) = {}
  /\ parsed.error.message = "Missing required fields: Name, Id"

\* C7: a returned record has a non-empty entry under exactly "Name" and one
\* under exactly "Id", and the resource is addressed by that Id, not by "new".
C7_NameAndIdPresent ==
  (Handled /\ parsed.ok) =>
    /\ Has(parsed.obj, KName) /\ Get(parsed.obj, KName) # <<>>
    /\ Has(parsed.obj, KId) /\ Get(parsed.obj, KId) # <<>>
    /\ response.content[2].uri =
         "ui://record/edit/" \o encodeURIComponent(Get(parsed.obj, KId))

\* a record parsed from a text that writes the labels iD and NAME
C7_Witness ==
  /\ pc = "form"
  /\ Get(parsed.obj, KName) = <<"B">>
  /\ Get(parsed.obj, KId) = <<"7">>
  /\ \E i \in 1..Len(WellFormed(text)) :
       MatchBullet(WellFormed(text)[i]).key = <<"N","A","M","E">>

\* C8: parsing a text gives what parsing it without its bullet lines that do
\* not match the pattern gives, the same record or the same failure.
C8_UnmatchedLinesIgnored ==
  Handled => parsed = parseObjectText(WithoutUnmatched(text))

\* a text that parses and holds a bullet line that does not match
C8_Witness == pc = "form" /\ WithoutUnmatched(text) # text

\* C9: a text with a name line and well-formed Id and Name bullets parses,
\* whatever other bullet lines it has.
C9_NoOtherFailure ==
  (Handled /\ HasNameLine(text) /\ HasLabel(text, LowerId)
     /\ HasLabel(text, LowerName)) => parsed.ok

\* C10: in the form, a field labelled id or with probability, amount or revenue
\* in its label has a text input; only the id field is read-only; a field has
\* a date input exactly when none of these apply, its label holds "date" and
\* its value passes isIsoDate.
C10_Precedence ==
  pc = "form" =>
    \A i \in 1..Len(fields) :
      LET lower == toLowerCase(fields[i].label)
          forced == \/ lower = LowerId
                    \/ includes(lower, WProbability)
                    \/ includes(lower, WAmount)
                    \/ includes(lower, WRevenue)
      IN  /\ forced => fields[i].type = "text"
          /\ fields[i].readonly <=> (lower = LowerId)
          /\ fields[i].type = "date" <=>
               (~forced /\ includes(lower, WDate)
                  /\ isIsoDate(Get(original, fields[i].label)))

\* a form with a text input for a field whose label holds "amount" and "date"
\* and whose value passes isIsoDate
C10_Witness ==
  /\ pc = "form"
  /\ \E i \in 1..Len(fields) :
       /\ includes(toLowerCase(fields[i].label), WAmount)
       /\ includes(toLowerCase(fields[i].label), WDate)
       /\ isIsoDate(Get(original, fields[i].label))
       /\ fields[i].type = "text"

\* the characters whose presence makes the date check refuse a value
Blocked(v) ==
  LET t == trim(v) IN
  \/ t # <<>> /\ t[Len(t)] = "%"
  \/ t # <<>> /\ t[1] = "$"
  \/ t # <<>> /\ \A i \in 1..Len(t) : t[i] \in {"0","1","2","3","4","5","6","7","8","9"}
  \/ \E i \in 1..Len(t) : t[i] \in {"$", "%", ","}

\* C11: isIsoDate returns false for every value that, trimmed, ends in "%",
\* begins with "$", is made of digits only, or holds "$", "%" or ",", whatever
\* the date parser makes of the value.
C11_BlockedValuesRejected ==
  (isoDate.done /\ Blocked(value)) => ~isoDate.result

\* a value with a comma that the date parser reads as a date of 2024, refused
C11_Witness ==
  /\ isoDate.done /\ ~isoDate.result
  /\ \E i \in 1..Len(value) : value[i] = ","
  /\ ~DateParse(trim(value)).nan /\ DateParse(trim(value)).y = 2024

\* C12: for a value of the shape DDDD-DD-DD isIsoDate returns true exactly
\* when the year is in 1900..2100, the month in 1..12 and the day in 1..31;
\* the calendar and the date parser have no say.
C12_StrictShapeRanges ==
  (isoDate.done /\ IsYmdShape(value)) =>
    (isoDate.result <=>
       /\ Number(SubSeq(value, 1, 4)) \in 1900..2100
       /\ Number(SubSeq(value, 6, 7)) \in 1..12
       /\ Number(SubSeq(value, 9, 10)) \in 1..31)

\* the thirtieth of February, accepted
C12_Witness ==
  /\ isoDate.done /\ isoDate.result
  /\ value = <<"2","0","2","4","-","0","2","-","3","0">>
\* the messages a Save has posted
PromptMsgs == { i \in 1..Len(msgs) : msgs[i].type = "prompt" }

\* a Save has just posted the last message
JustSaved == msgs # <<>> /\ msgs[Len(msgs)].type = "prompt"

\* the form data of the last message
LastData == msgs[Len(msgs)].recordData

\* the prompt of the last message
LastPrompt == msgs[Len(msgs)].prompt

\* a value cut at its first "T" when the lower-cased key holds "date"
Normalized(key, val) ==
  IF LET lower == toLowerCase(key) IN
       \E i \in 1..(Len(key) - 3) : SubSeq(lower, i, i + 3) = WDate
  THEN (IF \E i \in 1..Len(val) : val[i] = "T"
        THEN SubSeq(val, 1, (CHOOSE i \in 1..Len(val) :
                               val[i] = "T" /\ \A j \in 1..(i - 1) : val[j] # "T") - 1)
        ELSE val)
  ELSE val

\* the value of a key in the form data, the empty string when absent
CurrentOr(current, key) ==
  IF \E i \in 1..Len(current) : current[i].k = key
  THEN current[CHOOSE i \in 1..Len(current) : current[i].k = key].v
  ELSE <<>>

\* the keys of the original record whose normalized values differ, in order
DifferingKeys(current) ==
  SelectSeq([i \in 1..Len(original) |-> original[i].k],
            LAMBDA k : Normalized(k, CurrentOr(original, k))
                         # Normalized(k, CurrentOr(current, k)))

\* the entries the claim expects for a form data
ExpectedEntries(current) ==
  LET keys == DifferingKeys(current) IN
  [i \in 1..Len(keys) |->
     Str(keys[i]) \o " from \""
       \o Str(Normalized(keys[i], CurrentOr(original, keys[i])))
       \o "\" to \""
       \o Str(Normalized(keys[i], CurrentOr(current, keys[i]))) \o "\""]

\* a form data without the entry of one key
Without(current, key) == SelectSeq(current, LAMBDA e : e.k # key)

\* C13: the entries of buildPrompt are, for the keys of the original record in
\* order, those whose normalized original and current values differ, written
\* label from "old" to "new" with the normalized values; a key missing from
\* the form data counts as the empty string and a key the original record
\* lacks is not looked at.  Stated of the message a Save has just posted.
C13_ChangeEntries ==
  JustSaved =>
    /\ Changed(Keys(original), original, LastData) = ExpectedEntries(LastData)
    /\ \A j \in 1..Len(original) :
         Changed(Keys(original), original, Without(LastData, original[j].k))
           = ExpectedEntries(Without(LastData, original[j].k))
    /\ Changed(Keys(original), original, MapSet(LastData, <<"Z">>, <<"1">>))
         = ExpectedEntries(LastData)

\* a Save on a form whose date field differs from the original only behind
\* the "T" and whose Name was changed: one entry, for Name
C13_Witness ==
  \E i \in PromptMsgs :
    /\ msgs[i].prompt = "Update this field: Name from \"Acme\" to \"50\"."
    /\ \E j \in 1..Len(original) :
         /\ isDateField(original[j].k)
         /\ IndexOf(original[j].v, "T") > 0
         /\ Get(msgs[i].recordData, original[j].k) # original[j].v

\* the entries joined by "; "
RECURSIVE SemiJoined(_)
SemiJoined(entries) ==
  IF Len(entries) = 1 THEN entries[1]
  ELSE entries[1] \o "; " \o SemiJoined(Tail(entries))

\* C14: the prompt of a Save is never empty: "No changes detected." with no
\* entry, "Update this field: e." with one entry e, and "Update these fields:
\* e1; ...; ek." with k > 1 entries, each entry once and in order.  Stated of
\* the message a Save has just posted.
C14_PromptPhrasing ==
  JustSaved =>
    LET entries == Changed(Keys(original), original, LastData) IN
    /\ LastPrompt # ""
    /\ Len(entries) = 0 => LastPrompt = "No changes detected."
    /\ Len(entries) = 1 =>
         LastPrompt = "Update this field: " \o entries[1] \o "."
    /\ Len(entries) > 1 =>
         LastPrompt = "Update these fields: " \o SemiJoined(entries) \o "."

\* two Saves on one form, one with no entry and one with two
C14_Witness ==
  \E i, j \in PromptMsgs :
    /\ Len(Changed(Keys(original), original, msgs[i].recordData)) = 0
    /\ Len(Changed(Keys(original), original, msgs[j].recordData)) = 2

\* C15: the message of a Save carries the prompt and, for every field of the
\* original record and no other, the trimmed value of its input; a
\* probability field whose "%" was stripped for editing gets it back, and an
\* emptied probability input is reported as the empty string.
C15_SavePayload ==
  [][saveClicks' = saveClicks + 1 =>
       LET m == msgs'[Len(msgs')] IN
       /\ m.type = "prompt"
       /\ m.prompt = buildPrompt(original, m.recordData)
       /\ Len(m.recordData) = Len(original)
       /\ \A i \in 1..Len(fields) :
            /\ Has(original, fields[i].label)
            /\ Has(m.recordData, fields[i].label)
            /\ Get(m.recordData, fields[i].label) =
                 (IF fields[i].percent
                       /\ EndsWithPercent(Get(original, fields[i].label))
                       /\ trim(fields[i].value) # <<>>
                  THEN trim(fields[i].value) \o <<"%">>
                  ELSE trim(fields[i].value))]_vars

\* the table tool call has been handled
TableHandled == tpc # "call"

\* the outcome of parsing each text of the batch
Outcomes == [i \in 1..Len(batch) |-> parseObjectText(batch[i])]

\* the records of the batch, when every text parses
Records == [i \in 1..Len(batch) |-> Outcomes[i].obj]

\* the names that make "&" the start of an escaped form
EntityNames ==
  { <<"a","m","p",";">>, <<"l","t",";">>, <<"g","t",";">>,
    <<"q","u","o","t",";">>, <<"#","3","4",";">>, <<"#","3","8",";">>,
    <<"#","6","0",";">>, <<"#","6","2",";">> }

\* a piece of markup holds a "<", a ">" or a double quote, or an "&" that
\* starts no escaped form
HoldsRaw(piece) ==
  \E i \in 1..Len(piece) :
    \/ piece[i] \in {"<", ">", "\""}
    \/ /\ piece[i] = "&"
       /\ \A n \in EntityNames :
            \/ i + Len(n) > Len(piece)
            \/ SubSeq(piece, i + 1, i + Len(n)) # n

\* C16: what is emitted into the visible markup holds none of "<", ">", "&"
\* and the double quote as it came: the title and the heading with the object
\* type, the table headers and cells, and the labels and value attributes of
\* the form made for each record.
C16_MarkupEscaped ==
  tpc = "table" =>
    /\ ~HoldsRaw(table.title) /\ ~HoldsRaw(table.heading)
    /\ \A j \in 1..Len(table.headers) : ~HoldsRaw(table.headers[j])
    /\ \A i \in 1..Len(table.rows) :
         \A j \in 1..Len(table.rows[i].cells) : ~HoldsRaw(table.rows[i].cells[j])
    /\ \A i \in 1..Len(Records) :
         \A j \in 1..Len(Records[i]) :
           /\ ~HoldsRaw(esc(Records[i][j].k))
           /\ ~HoldsRaw(InputValue(Records[i][j].k, Records[i][j].v))

\* a text put into a script element holds an end tag of the element, in any
\* case and closed by ">", "/" or white space, or a comment opener
ClosesScript(t) ==
  \/ \E i \in 1..(Len(t) - 8) :
       /\ toLowerCase(SubSeq(t, i, i + 7)) = <<"<","/","s","c","r","i","p","t">>
       /\ t[i + 8] \in {">", "/", " ", "\t", "\n"}
  \/ \E i \in 1..(Len(t) - 3) : SubSeq(t, i, i + 3) = <<"<","!","-","-">>

\* a text put into an attribute quoted with ' holds a '
ClosesAttribute(t) == \E i \in 1..Len(t) : t[i] = "'"

\* C17: no value ends the embedding of the data early: the allRecords text of
\* the table's script and the original text of the form's script for each
\* record hold no script end tag and no comment opener, and the data-record
\* attribute of each row holds no quote of the kind that delimits it.
C17_EmbeddingNotTerminated ==
  tpc = "table" =>
    /\ ~ClosesScript(table.allRecords)
    /\ \A i \in 1..Len(table.rows) : ~ClosesAttribute(table.rows[i].dataRecord)
    /\ \A i \in 1..Len(Records) : ~ClosesScript(objJson(Records[i]))

\* the field names of the records of the batch
FieldUnion == UNION { { Records[i][j].k : j \in 1..Len(Records[i]) } :
                        i \in 1..Len(Records) }

FirstFailure(b) ==
  CHOOSE i \in 1..Len(b) :
    /\ ~parseObjectText(b[i]).ok
    /\ \A j \in 1..(i - 1) : parseObjectText(b[j]).ok

Fails(b) == \E i \in 1..Len(b) : ~parseObjectText(b[i]).ok

\* a batch with the texts at two positions exchanged
Exchanged(b, i, j) ==
  [n \in 1..Len(b) |-> IF n = i THEN b[j] ELSE IF n = j THEN b[i] ELSE b[n]]

\* C20: the error response of a rejected batch tells which entry failed: a
\* batch that fails for the same cause at another position gets a different
\* error text.
C20_FailureLocated ==
  tpc = "error" =>
    \A i, j \in 1..Len(batch) :
      LET other == Exchanged(batch, i, j) IN
      ( /\ Fails(other)
        /\ FirstFailure(other) # FirstFailure(batch)
        /\ parseObjectText(other[FirstFailure(other)]).error
             = parseObjectText(batch[FirstFailure(batch)]).error )
        => handleDisplayRecordsTable(other, objectType).content
             # tableResponse.content

\* the items of a response that are visual artifacts
Artifacts(r) == { i \in 1..Len(r.content) : r.content[i].type = "resource" }

\* C21: the edit handler returns a response for every text. When the parse
\* fails the response has the error flag and one item, the text "Error
\* parsing object text: " with the parse error message and the expected-format
\* example, and no artifact; when the parse succeeds it has no error flag, the
\* text summary and then one artifact.
C21_HandlerResponse ==
  Handled =>
    IF parsed.ok
    THEN /\ ~response.isError
         /\ Len(response.content) = 2
         /\ response.content[1] = TextItem(Summary(parsed.obj))
         /\ Artifacts(response) = {2}
         /\ pc = "form"
    ELSE /\ response.isError
         /\ response.content
              = <<TextItem("Error parsing object text: "
                             \o parsed.error.message \o ExpectedFormat)>>
         /\ Artifacts(response) = {}
         /\ pc = "error"

\* the names of the tools the server lists
ToolNames ==
  { DescribeTool, QueryTool, AggregateTool, DmlTool, EditTool, TableTool,
    DetailTool }

\* the request lacks an argument its tool requires, or holds one of the wrong
\* kind
Malformed(req) ==
  \/ req.name \in {DescribeTool, QueryTool, AggregateTool, DmlTool}
       /\ req.objectName = ""
  \/ req.name \in {QueryTool, AggregateTool, DmlTool} /\ ~req.list
  \/ req.name = AggregateTool /\ ~req.groupBy
  \/ req.name = DmlTool /\ req.operation = ""
  \/ req.name \in {EditTool, DetailTool} /\ req.text = <<>>
  \/ req.name = TableTool /\ (~req.list \/ req.objectType = <<>>)

\* the handler of the request's tool fails: the data store fails, an upsert
\* names no external id field, the operation is none of the four, or a text
\* does not parse
HandlerFails(req) ==
  \/ req.name \in {DescribeTool, QueryTool, AggregateTool, DmlTool, DetailTool}
       /\ req.store = "throws"
  \/ req.name = DmlTool /\ req.operation = "upsert" /\ req.externalIdField = ""
  \/ req.name = DmlTool
       /\ req.operation \notin {"insert", "update", "delete", "upsert"}
  \/ req.name = EditTool /\ ~parseObjectText(req.text).ok
  \/ req.name = TableTool
       /\ \E i \in 1..Len(req.records) : ~parseObjectText(req.records[i]).ok

\* a request that fails
Failing(req) ==
  \/ ~req.hasArguments
  \/ req.connection = "fails"
  \/ req.name \notin ToolNames
  \/ Malformed(req)
  \/ HandlerFails(req)

\* C22: the request handler ends every request with a response and lets no
\* exception leave it; the response of a request that fails (a name that is
\* no tool, no arguments, arguments that lack what the tool requires, a
\* connection that fails, a handler that throws) has the error flag and a
\* text item; and whatever failed before, the server takes the next request.
C22_NoFailureIsFatal ==
  /\ served > 0 =>
       /\ ~result.escaped
       /\ result.content # <<>>
       /\ Failing(request) =>
            /\ result.isError
            /\ result.content[1].type = "text"
  /\ served < MaxRequests => ENABLED CallTool

\* an upsert without external id field is answered after an earlier request
\* failed, and a request is answered without error after an earlier one failed
C22_Witness ==
  /\ served = 2 /\ failedBefore
  /\ request.hasArguments /\ request.connection = "ok"
  /\ request.name = DmlTool /\ request.operation = "upsert"
  /\ request.externalIdField = "" /\ ~Malformed(request)
  /\ result.isError

\* the request is a call of one of the two rendering tools with texts that
\* parse
ValidRendering(req) ==
  /\ req.hasArguments
  /\ req.name \in {EditTool, TableTool}
  /\ ~Malformed(req)
  /\ ~HandlerFails(req)

\* C30: a call of salesforce_edit_record or salesforce_view_records_table
\* with valid text is answered with its artifact, whether the connection to
\* the data store is made or not.
C30_RenderingWithoutStore ==
  (served > 0 /\ ValidRendering(request)) =>
    /\ ~result.isError
    /\ Artifacts(result) # {}

\* the edit messages the table has posted, in order
TablePrompts == SelectSeq(tmsgs, LAMBDA m : m.type = "prompt")

\* C25: the text the table posts to edit a clicked row is accepted by
\* parseObjectText and parses back to a record equal to the record of that row
C25_TableFormRoundTrip ==
  (tpc = "table" /\ Len(TablePrompts) = Len(clicked)) =>
    \A k \in 1..Len(clicked) :
      LET p == parseObjectText(TablePrompts[k].text)
      IN  p.ok /\ p.obj = Records[clicked[k].index + 1]

\* C26: every click on a row of the table, on its Edit button or elsewhere on
\* the row, has posted exactly one edit message, built from the record of that
\* row and from no other record
C26_OneMessagePerClick ==
  tpc = "table" =>
    /\ Len(TablePrompts) = Len(clicked)
    /\ \A k \in 1..Len(clicked) :
         <<TablePrompts[k]>> = editRecord(Records, clicked[k].index)

\* the fields whose value the user changed and whose trimmed value, as Save
\* reads it, differs from the original value
UserEdited ==
  { i \in 1..Len(fields) :
      /\ fields[i].value # objectCardHtml(original)[i].value
      /\ Get(getFormData(fields), fields[i].label)
           # Get(original, fields[i].label) }

\* C27: when the user has changed a field so that its trimmed value differs
\* from the original value, the prompt of a Save is not "No changes detected."
\* and has a change entry for that field, whatever the label of the field
C27_NoEditDropped ==
  [][saveClicks' = saveClicks + 1 =>
       LET m == msgs'[Len(msgs')]
           entries == Changed(Keys(original), original, m.recordData)
       IN  \A i \in UserEdited :
             LET key == fields[i].label IN
             /\ m.prompt # NoChanges
             /\ \E e \in 1..Len(entries) :
                  entries[e] = ChangeEntry(key, Norm(key, Get(original, key)),
                                           Norm(key, Get(m.recordData, key)))]_vars

\* a step in which the form, or the table, posts a size-change message
FormSizeStep ==
  Len(msgs') > Len(msgs) /\ msgs'[Len(msgs')].type = "ui-size-change"

TableSizeStep ==
  Len(tmsgs') > Len(tmsgs) /\ tmsgs'[Len(tmsgs')].type = "ui-size-change"

\* C23: every observed height change posts one size-change message whose
\* height is the observed height plus 16; the observer can fire in every state
\* of the artifact, before and after edits, Save and Cancel; a size change
\* leaves the values of the fields and the original record as they are, so
\* the message of a Save is the same before and after it
C23_SizeChanges ==
  /\ [][/\ Resize => FormSizeStep
        /\ TableResize => TableSizeStep
        /\ FormSizeStep =>
             /\ \E h \in Heights :
                  msgs' = Append(msgs, [type |-> "ui-size-change",
                                        height |-> h + 16, prompt |-> "",
                                        recordData |-> <<>>, action |-> ""])
             /\ fields' = fields /\ original' = original
             /\ save(fields', original') = save(fields, original)
        /\ TableSizeStep =>
             /\ \E h \in Heights :
                  tmsgs' = Append(tmsgs, [type |-> "ui-size-change",
                                          height |-> h + 16, prompt |-> "",
                                          text |-> <<>>])
             /\ tscript' = tscript /\ table' = table]_vars
  /\ []((pc = "form" /\ Len(msgs) < MaxMsgs) => ENABLED Resize)
  /\ []((tpc = "table" /\ tscript.ok /\ Len(tmsgs) < MaxMsgs)
          => ENABLED TableResize)

\* a form that posted a size change, was edited, and then posted a Save that
\* reports the edit
C23_Witness ==
  /\ edited
  /\ \E i, j \in 1..Len(msgs) :
       /\ i < j
       /\ msgs[i].type = "ui-size-change"
       /\ msgs[j].type = "prompt" /\ msgs[j].prompt # NoChanges

\* the kinds of message of the protocol: a size change, a user action with a
\* description and data, and a cancel with its tag and no data
FormMessageOk(m) ==
  \/ m.type = "ui-size-change" /\ m.height > 0
  \/ m.type = "prompt" /\ m.prompt # "" /\ m.recordData # NoData
  \/ m.type = "action" /\ m.action = "cancel" /\ m.recordData = NoData
       /\ m.prompt = ""

TableMessageOk(m) ==
  \/ m.type = "ui-size-change" /\ m.height > 0
  \/ m.type = "prompt" /\ m.prompt # "" /\ m.text # <<>>

C28_IdStable ==
  \A i \in PromptMsgs :
    /\ Get(msgs[i].recordData, KId) = Get(original, KId)
    /\ Changed(<<KId>>, original, msgs[i].recordData) = <<>>

\* C29: the original record of the form is the record it was rendered from
\* and no step changes it; the prompt of every Save is the difference of its
\* data from that record, whatever was saved before; a Save leaves the fields
\* as they are, so a Save that follows it with no edit in between posts the
\* same message
C29_OriginalFixed ==
  /\ [](pc = "form" => original = parsed.obj)
  /\ [][pc = "form" => original' = original]_vars
  /\ [](\A i \in PromptMsgs :
          msgs[i].prompt = buildPrompt(parsed.obj, msgs[i].recordData))
  /\ [][saveClicks' = saveClicks + 1 =>
          /\ fields' = fields
          /\ <<msgs'[Len(msgs')]>> = save(fields', original')]_vars

\* two Saves with no edit in between, after an edit: the same message twice,
\* and it reports a change
C29_Witness ==
  /\ Len(msgs) = 2
  /\ msgs[1] = msgs[2]
  /\ msgs[1].type = "prompt" /\ msgs[1].prompt # NoChanges
  /\ edited

====
